---- MODULE Spec2Model ----
(***************************************************************************)
(* A model of the Mermaid flowchart builder: ChartNode, Connection,        *)
(* ClassDef / LinkDef, Directive and FlowChart, with the text each render  *)
(* method returns.  Objects live in heaps (sequences indexed by handle);   *)
(* handle 0 is JavaScript's null.  Rendered text is a TLA+ string built    *)
(* with \o exactly as the code concatenates it.  Numbers that may be       *)
(* fractional (an edge's depth) are kept in halves: h stands for h/2.      *)
(***************************************************************************)
EXTENDS Integers, Sequences, FiniteSets, TLC

VARIABLES
  nodeHeap,     \* ChartNode objects: id, text, shape, class, emitted flag
  connHeap,     \* Connection objects
  classHeap,    \* ClassDef and LinkDef objects
  dirHeap,      \* Directive objects
  charts,       \* FlowChart objects, by handle
  subgraphGen,  \* counter of the module-level idGenerator("sub")
  newId,        \* counter of the module-level idGenerator("node")
  renders,      \* texts returned by the render() calls since the last mutation
  machine,      \* the state machine handed to the adapter
  input,        \* the string handed to slugify
  calls,        \* number of mutating calls made so far
  last          \* the last call: operation, arguments, exception, result

vars == <<nodeHeap, connHeap, classHeap, dirHeap, charts, subgraphGen, newId,
          renders, machine, input, calls, last>>

----------------------------------------------------------------------------
(* Bounds of the model *)

MaxConns == 2      \* connections the caller constructs
MaxCalls == 3      \* mutating calls of a builder run
MaxDepth == 5      \* largest depth given to the Connection constructor
MaxRenders == 2    \* consecutive render() calls whose texts are kept
MaxGen == 2        \* identifiers drawn from the subgraph name generator

----------------------------------------------------------------------------
(* Generic helpers *)

Null == 0

\* A nullable string is a sequence of at most one string: <<>> is null.
None == <<>>
Some(s) == <<s>>
IsNull(v) == Len(v) = 0

Range(s) == {s[i] : i \in 1..Len(s)}

Includes(s, x) == \E i \in 1..Len(s) : s[i] = x

NoDuplicates(s) == \A i, j \in 1..Len(s) : s[i] = s[j] => i = j

IsPrefix(s, t) == Len(s) <= Len(t) /\ \A i \in 1..Len(s) : s[i] = t[i]

RECURSIVE Join(_, _)
Join(parts, sep) ==
  IF Len(parts) = 0 THEN ""
  ELSE IF Len(parts) = 1 THEN parts[1]
  ELSE parts[1] \o sep \o Join(Tail(parts), sep)

RECURSIVE Concat(_)
Concat(chars) == IF Len(chars) = 0 THEN "" ELSE chars[1] \o Concat(Tail(chars))

RECURSIVE Digits(_)
Digits(n) ==
  LET d == <<"0", "1", "2", "3", "4", "5", "6", "7", "8", "9">>
  IN IF n < 10 THEN d[n + 1] ELSE Digits(n \div 10) \o d[(n % 10) + 1]

----------------------------------------------------------------------------
(* utils: idGenerator and slugify.  A string handed to slugify is a       *)
(* sequence of characters (one-character strings); "E^" and "e^" stand    *)
(* for the precomposed letters U+00C9 and U+00E9, "^" for the combining   *)
(* acute accent U+0301 they decompose to.                                  *)

IdGeneratorNext(stub, counter) ==
  [value |-> stub \o Digits(counter + 1), counter |-> counter + 1]

UpperLetters == <<"A", "B", "C", "H", "E">>
LowerLetters == <<"a", "b", "c", "h", "e">>

CombiningMarks == {"^"}
WhiteSpace == {" "}
WordChars == Range(UpperLetters) \cup Range(LowerLetters)
               \cup {"o", "m", "u", "t", "0", "1", "_"}

RECURSIVE NormalizeNFD(_)
NormalizeNFD(cs) ==
  IF Len(cs) = 0 THEN <<>>
  ELSE (CASE cs[1] = "E^" -> <<"E", "^">>
          [] cs[1] = "e^" -> <<"e", "^">>
          [] OTHER -> <<cs[1]>>) \o NormalizeNFD(Tail(cs))

StripMarks(cs) == SelectSeq(cs, LAMBDA c : c \notin CombiningMarks)

ToLowerChar(c) ==
  IF \E i \in 1..Len(UpperLetters) : UpperLetters[i] = c
  THEN LowerLetters[CHOOSE i \in 1..Len(UpperLetters) : UpperLetters[i] = c]
  ELSE c

\* toLowerCase() left out
KeepCase(cs) == cs

ToLowerCase(cs) == [i \in 1..Len(cs) |-> ToLowerChar(cs[i])]

RECURSIVE TrimStart(_)
TrimStart(cs) ==
  IF Len(cs) > 0 /\ cs[1] \in WhiteSpace THEN TrimStart(Tail(cs)) ELSE cs

RECURSIVE TrimEnd(_)
TrimEnd(cs) ==
  IF Len(cs) > 0 /\ cs[Len(cs)] \in WhiteSpace
  THEN TrimEnd(SubSeq(cs, 1, Len(cs) - 1)) ELSE cs

Trim(cs) == TrimEnd(TrimStart(cs))

\* text.replace(/\s+/g, "-"): every maximal run of white space becomes one "-"
RECURSIVE SpacesToHyphen(_)
SpacesToHyphen(cs) ==
  IF Len(cs) = 0 THEN <<>>
  ELSE IF cs[1] \in WhiteSpace
       THEN <<"-">> \o SpacesToHyphen(TrimStart(cs))
       ELSE <<cs[1]>> \o SpacesToHyphen(Tail(cs))

\* text.replace(/[^\w-]+/g, "")
DropNonWord(cs) == SelectSeq(cs, LAMBDA c : c \in WordChars \/ c = "-")

\* text.replace(/--/g, "-"): every pair of hyphens becomes one
RECURSIVE CollapsePairs(_)
CollapsePairs(cs) ==
  IF Len(cs) = 0 THEN <<>>
  ELSE IF Len(cs) >= 2 /\ cs[1] = "-" /\ cs[2] = "-"
       THEN <<"-">> \o CollapsePairs(SubSeq(cs, 3, Len(cs)))
       ELSE <<cs[1]>> \o CollapsePairs(Tail(cs))

\* text.replace(/--+/g, "-"): every run of two or more hyphens becomes one
RECURSIVE CollapseHyphens(_)
CollapseHyphens(cs) ==
  IF Len(cs) = 0 THEN <<>>
  ELSE IF Len(cs) >= 2 /\ cs[1] = "-" /\ cs[2] = "-"
       THEN CollapseHyphens(Tail(cs))
       ELSE <<cs[1]>> \o CollapseHyphens(Tail(cs))

slugify(text) ==
  CollapseHyphens(DropNonWord(SpacesToHyphen(Trim(ToLowerCase(
    StripMarks(NormalizeNFD(text)))))))

----------------------------------------------------------------------------
(* classdef.js, linkdef.js: style definitions *)

StyleKeys == <<"color", "fill", "stroke", "strokeWidth", "strokeDash">>

EmptyStyle ==
  [color |-> None, fill |-> None, stroke |-> None,
   strokeWidth |-> None, strokeDash |-> None]

ClassDefNew(name) == [kind |-> "ClassDef", name |-> name, style |-> EmptyStyle]

\* LinkDef's constructor calls super("link"); the inherited name getter and
\* the inherited setters read and write the ClassDef fields.
LinkDefNew == [kind |-> "LinkDef", name |-> "link", style |-> EmptyStyle]

\* color(v), fill(v), stroke(v), strokeWidth(v), strokeDash(v): key names the
\* setter
StyleSet(cd, key, value) == [cd EXCEPT !.style[key] = value]

\* The five setter calls of ClassDef.from and LinkDef.from, in their order
CopyStyle(new, cd) ==
  StyleSet(StyleSet(StyleSet(StyleSet(StyleSet(new,
    "color", cd.style.color), "fill", cd.style.fill), "stroke", cd.style.stroke),
    "strokeDash", cd.style.strokeDash), "strokeWidth", cd.style.strokeWidth)

\* ClassDef.from(classDef, name) with a name given: the new object
ClassDefFrom(cd, name) == CopyStyle(ClassDefNew(name), cd)

\* LinkDef.from(linkDef): the new object (the constructor takes no name)
LinkDefFrom(ld) == CopyStyle(LinkDefNew, ld)

IsClassDef(cd) == cd.kind \in {"ClassDef", "LinkDef"}
IsLinkDef(cd) == cd.kind = "LinkDef"

ClassDefKey(key) == IF key = "strokeWidth" THEN "stroke-width" ELSE key

LinkDefKey(key) ==
  IF key = "strokeWidth" THEN "stroke-width"
  ELSE IF key = "strokeDash" THEN "stroke-dasharray"
  ELSE key

\* A loop that leaves the last property out
SetKeysButLast(style) ==
  SelectSeq(StyleKeys, LAMBDA k : ~IsNull(style[k]) /\ k # "strokeDash")

\* for (const [key, value] of Object.entries(style)) if (value !== null) push
SetKeys(style) == SelectSeq(StyleKeys, LAMBDA k : ~IsNull(style[k]))

ClassDefTokens(style) ==
  [i \in 1..Len(SetKeys(style)) |->
     ClassDefKey(SetKeys(style)[i]) \o ":" \o style[SetKeys(style)[i]][1]]

LinkDefTokens(style) ==
  [i \in 1..Len(SetKeys(style)) |->
     LinkDefKey(SetKeys(style)[i]) \o ":" \o style[SetKeys(style)[i]][1]]

ClassDefRender(cd) ==
  "\nclassDef " \o cd.name \o " " \o Join(ClassDefTokens(cd.style), ",")
    \o "\n"

LinkDefRender(ld) ==
  "\nlinkStyle " \o "default" \o " " \o Join(LinkDefTokens(ld.style), ",")

\* The array styles that render() joins
StyleTokens(cd) ==
  IF IsLinkDef(cd) THEN LinkDefTokens(cd.style) ELSE ClassDefTokens(cd.style)

\* render() dispatches on the object's class
StyleRender(cd) == IF IsLinkDef(cd) THEN LinkDefRender(cd) ELSE ClassDefRender(cd)

----------------------------------------------------------------------------
(* directive.js *)

DirectiveNew ==
  [theme |-> None, fontFamily |-> None, variables |-> None, flowchart |-> None]

\* An object is a sequence of <<key, value>> pairs in insertion order; a
\* nullable object is a sequence of at most one object.
JsonPair(k, v) == "\"" \o k \o "\":\"" \o v \o "\""
FlowPair(k, v) == "\"" \o k \o "\": \"" \o v \o "\""

\* The entries of JSON.stringify(obj)
JsonEntries(obj) == [i \in 1..Len(obj) |-> JsonPair(obj[i][1], obj[i][2])]

\* Object.entries(obj).map(([key, value]) => ...)
FlowEntries(obj) == [i \in 1..Len(obj) |-> FlowPair(obj[i][1], obj[i][2])]

\* The keys of FlowProps
FlowProps ==
  {"titleTopMargin", "diagramPadding", "htmlLabels", "nodeSpacing", "rankSpacing",
   "curve", "useMaxWidth"}

\* { ...old, ...new }: a key of old keeps its place and takes the new value
RECURSIVE Spread(_, _)
Spread(old, new) ==
  IF Len(new) = 0 THEN old
  ELSE Spread(IF \E i \in 1..Len(old) : old[i][1] = new[1][1]
              THEN [i \in 1..Len(old) |->
                      IF old[i][1] = new[1][1] THEN new[1] ELSE old[i]]
              ELSE Append(old, new[1]),
              Tail(new))

\* flowchart(value) with an object: the field becomes an object before the
\* keys are looked at; a value "" stands for a falsy value, which is not set
DirectiveFlowchart(d, obj) ==
  IF \E i \in 1..Len(obj) : obj[i][1] \notin FlowProps
  THEN [threw |-> "RangeError",
        dir |-> [d EXCEPT !.flowchart = IF IsNull(@) THEN Some(<<>>) ELSE @]]
  ELSE [threw |-> "",
        dir |-> [d EXCEPT !.flowchart =
                   Some(Spread(IF IsNull(@) THEN <<>> ELSE @[1],
                               SelectSeq(obj, LAMBDA e : e[2] # "")))]]

\* The keys of Curve
Curve ==
  {"basis", "bumpX", "bumpY", "cardinal", "catmullRom", "linear", "monotoneX",
   "monotoneY", "natural", "step", "stepAfter", "stepBefore"}

\* The flowchart field after the last statement of curve(value): an object
\* without keys becomes null
DirectiveCurveEnd(d) ==
  [threw |-> "",
   dir |-> [d EXCEPT !.flowchart = IF @ = Some(<<>>) THEN None ELSE @]]

\* curve(value) with value v (a curve name, or undefined): the field
\* becomes an object before v is looked at
DirectiveCurve(d, v) ==
  IF v.kind = "undefined"
  THEN DirectiveCurveEnd(
         [d EXCEPT !.flowchart =
            IF IsNull(@) THEN Some(<<>>)
            ELSE Some(SelectSeq(@[1], LAMBDA e : e[1] # "curve"))])
  ELSE IF v.name \notin Curve
  THEN [threw |-> "TypeError",
        dir |-> [d EXCEPT !.flowchart = IF IsNull(@) THEN Some(<<>>) ELSE @]]
  ELSE DirectiveCurveEnd(
         [d EXCEPT !.flowchart =
            Some(Spread(IF IsNull(@) THEN <<>> ELSE @[1],
                        <<<<"curve", v.name>>>>))])

\* variables(obj)
DirectiveVariables(d, obj) ==
  [d EXCEPT !.variables = Some(Spread(IF IsNull(@) THEN <<>> ELSE @[1], obj))]

DirectiveRender(d) ==
  LET a1 == IF ~IsNull(d.theme) /\ d.theme[1] # ""
            THEN <<"\"theme\": \"" \o d.theme[1] \o "\"">> ELSE <<>>
      a2 == IF ~IsNull(d.fontFamily) /\ d.fontFamily[1] # ""
            THEN <<"\"fontFamily\": \"" \o d.fontFamily[1] \o "\"">> ELSE <<>>
      a3 == IF ~IsNull(d.variables)
            THEN <<"\"themeVariables\": {"
                     \o Join(JsonEntries(d.variables[1]), ",") \o "}">>
            ELSE <<>>
      a4 == IF ~IsNull(d.flowchart)
            THEN <<"\"flowchart\": {"
                     \o Join(FlowEntries(d.flowchart[1]), ",") \o "}">>
            ELSE <<>>
  IN "%%{ init: {" \o Join(a1 \o a2 \o a3 \o a4, ", ") \o "} }%%\n"

----------------------------------------------------------------------------
(* chart-node.js *)

NodeShape ==
  [x \in {"round-rect"} |-> [start |-> "(", end |-> ")"]] @@
  [x \in {"pill", "stadium"} |-> [start |-> "([", end |-> "])"]] @@
  [x \in {"subroutine"} |-> [start |-> "[[", end |-> "]]"]] @@
  [x \in {"cylinder", "database"} |-> [start |-> "[(", end |-> ")]"]] @@
  [x \in {"circle"} |-> [start |-> "((", end |-> "))"]] @@
  [x \in {"asymmetric", "flag"} |-> [start |-> ">", end |-> "]"]] @@
  [x \in {"diamond", "rhombus"} |-> [start |-> "{", end |-> "}"]] @@
  [x \in {"hex", "hexagon"} |-> [start |-> "{{", end |-> "}}"]] @@
  [x \in {"parallel-r", "skew-r"} |-> [start |-> "[/", end |-> "/]"]] @@
  [x \in {"parallel-l", "skew-l"} |-> [start |-> "[\\", end |-> "\\]"]] @@
  [x \in {"trapezoid"} |-> [start |-> "[/", end |-> "\\]"]] @@
  [x \in {"trapezoid-alt"} |-> [start |-> "[\\", end |-> "/]"]] @@
  [x \in {"double-circle"} |-> [start |-> "(((", end |-> ")))"]] @@
  [x \in {"default"} |-> [start |-> "[", end |-> "]"]]

NodeShapeMatch(shape) == shape \in DOMAIN NodeShape

\* new ChartNode(id): node_shape holds the shape's name, <<>> when null
ChartNodeNew(id) ==
  [id |-> id, node_text |-> "", node_shape |-> None, node_class |-> Null,
   hasBeenRendered |-> FALSE]

ChartNodeText(n, text) == [n EXCEPT !.node_text = text]

\* An argument of shape(): the string name, or the shape object
\* NodeShape[name] that the nodeShape getter returns
ShapeName(name) == [kind |-> "string", name |-> name]
ShapeObject(name) == [kind |-> "object", name |-> name]

\* class(classDef) with argument value v: exception and node
ChartNodeClass(n, v) ==
  IF v.kind = "undefined" THEN [threw |-> "", node |-> [n EXCEPT !.node_class = Null]]
  ELSE IF v.kind \notin {"ClassDef", "LinkDef"} THEN [threw |-> "TypeError", node |-> n]
  ELSE [threw |-> "", node |-> [n EXCEPT !.node_class = v.ref]]

\* shape(shape): NodeShape.match compares the argument with the key strings
ChartNodeShape(n, shape) ==
  IF shape.kind = "undefined"
  THEN [threw |-> "", node |-> [n EXCEPT !.node_shape = None]]
  ELSE IF ~(shape.kind = "string" /\ NodeShapeMatch(shape.name))
  THEN [threw |-> "TypeError", node |-> n]
  ELSE [threw |-> "", node |-> [n EXCEPT !.node_shape = Some(shape.name)]]

\* ChartNode.from(node, id) with argument value v: exception and new node.
\* class() and shape() are called when the source has a style and a shape;
\* shape() is handed the object the nodeShape getter returns.
ChartNodeFrom(v, id, nh, clh) ==
  IF v.kind # "ChartNode" THEN [threw |-> "TypeError", node |-> ChartNodeNew(id)]
  ELSE
    LET node == nh[v.ref]
        new == ChartNodeText(ChartNodeNew(id), node.node_text)
        classed == IF node.node_class # Null
                   THEN ChartNodeClass(new, [kind |-> clh[node.node_class].kind,
                                             ref |-> node.node_class])
                   ELSE [threw |-> "", node |-> new]
    IN IF classed.threw # "" \/ IsNull(node.node_shape) THEN classed
       ELSE ChartNodeShape(classed.node, ShapeObject(node.node_shape[1]))

\* render(): the text returned, whether it carries the shape-wrapped text, and
\* the node with its flag set
ChartNodeRender(n) ==
  LET shape == NodeShape[IF IsNull(n.node_shape) THEN "default" ELSE n.node_shape[1]]
      text == IF ~n.hasBeenRendered /\ n.node_text # ""
              THEN shape.start \o n.node_text \o shape.end
              ELSE ""
  IN [text |-> n.id \o text, shaped |-> text # "",
      node |-> [n EXCEPT !.hasBeenRendered = TRUE]]

ChartNodeReset(n) == [n EXCEPT !.hasBeenRendered = FALSE]

----------------------------------------------------------------------------
(* connection.js *)

\* A depth argument: def = FALSE is an omitted argument, otherwise the
\* number h/2.
DepthOmitted == [def |-> FALSE, h |-> 0]
DepthNumber(h) == [def |-> TRUE, h |-> h]
IsInteger(h) == h % 2 = 0

\* parseInt of a number: its integer part, truncated toward zero
ParseInt(h) == IF h >= 0 THEN h \div 2 ELSE -((-h) \div 2)

EndUnset == [set |-> FALSE, node |-> Null, arrow |-> FALSE, arrowStyle |-> "default"]
EndOf(node, arrow, arrowStyle) ==
  [set |-> TRUE, node |-> node, arrow |-> arrow, arrowStyle |-> arrowStyle]

\* constructor(depth): threw is the exception's name, "" when it returns
ConnectionNew(depth) ==
  [threw |-> IF depth.def /\ ParseInt(depth.h) = 0 THEN "Error" ELSE "",
   conn |-> [depth |-> IF depth.def THEN depth.h ELSE 0,
             from_node |-> EndUnset,
             to_node |-> EndUnset,
             link_class |-> None,
             link_style |-> None,
             link_text |-> None]]

ConnectionFrom(c, node, arrow, arrowStyle) ==
  [c EXCEPT !.from_node = EndOf(node, arrow, arrowStyle)]

ConnectionTo(c, node, arrow, arrowStyle) ==
  [c EXCEPT !.to_node = EndOf(node, arrow, arrowStyle)]

ConnectionStyle(c, style) == [c EXCEPT !.link_style = style]

ConnectionText(c, text) == [c EXCEPT !.link_text = text]

\* class(linkDef) that keeps the argument itself instead of a copy
ConnectionClassShared(c, v, clh) ==
  IF v.kind = "undefined"
  THEN [threw |-> "", conn |-> [c EXCEPT !.link_class = None], heap |-> clh]
  ELSE IF v.kind # "LinkDef" THEN [threw |-> "TypeError", conn |-> c, heap |-> clh]
  ELSE [threw |-> "", conn |-> [c EXCEPT !.link_class = Some(v.ref)], heap |-> clh]

\* class(linkDef) with argument value v; the copy LinkDef.from makes is put
\* at the end of the style heap clh
ConnectionClass(c, v, clh) ==
  IF v.kind = "undefined"
  THEN [threw |-> "", conn |-> [c EXCEPT !.link_class = None], heap |-> clh]
  ELSE IF v.kind # "LinkDef" THEN [threw |-> "TypeError", conn |-> c, heap |-> clh]
  ELSE [threw |-> "",
        conn |-> [c EXCEPT !.link_class = Some(Len(clh) + 1)],
        heap |-> Append(clh, LinkDefFrom(clh[v.ref]))]

\* The default arrowhead for every style
getArrowStylePlain(style, left) == IF left THEN "<" ELSE ">"

getArrowStyle(style, left) ==
  CASE style = "round" -> "o"
    [] style = "x" -> "x"
    [] OTHER -> IF left THEN "<" ELSE ">"

\* line_length without the adjustment for dotted lines
LineLengthPlain(c) ==
  IF c.from_node.arrow \/ c.to_node.arrow THEN 6 + c.depth - 2 ELSE 6 + c.depth

\* line_length, in halves, after the two adjustments of render()
LineLength(c) ==
  LET l0 == 6 + c.depth
      l1 == IF c.from_node.arrow \/ c.to_node.arrow THEN l0 - 2 ELSE l0
  IN IF l1 % 4 = 0 /\ c.link_style = Some("dotted") THEN l1 + 2 ELSE l1

\* new Array(n).fill("").map(...).join(""), n a whole number >= 0
LineBody(n, style) ==
  Concat([i \in 1..n |->
            IF style = Some("dotted") THEN (IF (i - 1) % 2 = 0 THEN "-" ELSE ".")
            ELSE IF style = Some("thick") THEN "="
            ELSE "-"])

Emit(node, r) == [node |-> node, shaped |-> r.shaped]

Thrown(name, emits, nh) ==
  [threw |-> name, text |-> "", line |-> "", emits |-> emits, heap |-> nh]

WithNode(nh, h, node) == [nh EXCEPT ![h] = node]

\* The label without its pipes
LabelBare(c) ==
  IF ~IsNull(c.link_text) /\ c.link_text[1] # ""
  THEN c.link_text[1] \o " " ELSE " "

Label(c) ==
  IF ~IsNull(c.link_text) /\ c.link_text[1] # ""
  THEN "|" \o c.link_text[1] \o "| " ELSE " "

\* The return statement of render(), both ends rendered: r1 and r2 are what
\* the two node.render() calls returned
ConnectionRenderText(c, line, r1, r2) ==
  r1.text
    \o (IF c.from_node.arrow
        THEN getArrowStyle(c.from_node.arrowStyle, c.from_node.arrow) ELSE " ")
    \o line
    \o (IF c.to_node.arrow
        THEN getArrowStyle(c.to_node.arrowStyle, ~c.to_node.arrow) ELSE "")
    \o Label(c)
    \o r2.text

ConnectionRenderTo(c, nh1, line, r1, r2) ==
  [threw |-> "",
   text |-> ConnectionRenderText(c, line, r1, r2),
   line |-> line,
   emits |-> <<Emit(c.from_node.node, r1), Emit(c.to_node.node, r2)>>,
   heap |-> WithNode(nh1, c.to_node.node, r2.node)]

\* fromN.node.render() has returned r1, leaving the heap nh1
ConnectionRenderFrom(c, nh1, line, r1) ==
  IF c.to_node.node = Null
  THEN Thrown("TypeError", <<Emit(c.from_node.node, r1)>>, nh1)
  ELSE ConnectionRenderTo(c, nh1, line, r1, ChartNodeRender(nh1[c.to_node.node]))

ConnectionRenderNodes(c, nh, line, r1) ==
  ConnectionRenderFrom(c, WithNode(nh, c.from_node.node, r1.node), line, r1)

\* len is line_length in halves
ConnectionRenderLine(c, nh, len) ==
  IF ~IsInteger(len) \/ len < 0 THEN Thrown("RangeError", <<>>, nh)
  ELSE IF c.from_node.node = Null THEN Thrown("TypeError", <<>>, nh)
  ELSE ConnectionRenderNodes(c, nh, LineBody(len \div 2, c.link_style),
                             ChartNodeRender(nh[c.from_node.node]))

\* render() over the node heap nh: the exception thrown ("" for none), the
\* text returned, its line body, the node.render() calls made in order, and
\* the heap with the flags the call has set
ConnectionRender(c, nh) ==
  IF ~c.from_node.set \/ ~c.to_node.set THEN Thrown("TypeError", <<>>, nh)
  ELSE ConnectionRenderLine(c, nh, LineLength(c))

----------------------------------------------------------------------------
(* flowchart.js: the FlowChart object and its add-operations *)

\* An argument value: its class and its handle in that class's heap.  A
\* plain object is kind "Object"; null is kind "null".
Val(kind, ref) == [kind |-> kind, ref |-> ref]
NullVal == Val("null", 0)

\* v instanceof cls (LinkDef extends ClassDef)
InstanceOf(v, cls) ==
  IF cls = "ClassDef" THEN v.kind \in {"ClassDef", "LinkDef"} ELSE v.kind = cls

FlowChartNew(name) ==
  [chart_direction |-> "TD",
   classes |-> <<>>,
   connections |-> <<>>,
   default_class |-> None,
   default_link |-> None,
   directives |-> <<>>,
   name |-> name,
   nodes |-> <<>>,
   style |-> Null,
   subgraphs |-> <<>>]

\* direction(direction)
FlowChartDirection(g, direction) == [g EXCEPT !.chart_direction = direction]

\* push without the includes() test
PushAlways(list, x) == Append(list, x)

PushNew(list, x) == IF Includes(list, x) THEN list ELSE Append(list, x)

RECURSIVE PushAll(_, _)
PushAll(list, xs) ==
  IF Len(xs) = 0 THEN list ELSE PushAll(PushNew(list, xs[1]), Tail(xs))

Refs(args) == [i \in 1..Len(args) |-> args[i].ref]

AllInstanceOf(args, cls) == \A i \in 1..Len(args) : InstanceOf(args[i], cls)

\* addClass(...classDefs): the exception thrown ("" for none) and the chart
AddClass(g, args) ==
  IF ~AllInstanceOf(args, "ClassDef")
  THEN [threw |-> "TypeError", chart |-> g]
  ELSE [threw |-> "", chart |-> [g EXCEPT !.classes = PushAll(@, Refs(args))]]

AddDirective(g, args) ==
  IF ~AllInstanceOf(args, "Directive")
  THEN [threw |-> "TypeError", chart |-> g]
  ELSE [threw |-> "", chart |-> [g EXCEPT !.directives = PushAll(@, Refs(args))]]

\* addNode testing each node as the loop reaches it
RECURSIVE AddNodeEager(_, _)
AddNodeEager(g, args) ==
  IF Len(args) = 0 THEN [threw |-> "", chart |-> g]
  ELSE IF ~InstanceOf(args[1], "ChartNode") THEN [threw |-> "TypeError", chart |-> g]
  ELSE AddNodeEager([g EXCEPT !.nodes = PushNew(@, args[1].ref)], Tail(args))

AddNode(g, args) ==
  IF ~AllInstanceOf(args, "ChartNode")
  THEN [threw |-> "TypeError", chart |-> g]
  ELSE [threw |-> "", chart |-> [g EXCEPT !.nodes = PushAll(@, Refs(args))]]

\* The loop of addConnection over connection handles cs: reading .node of an
\* end that from()/to() never set throws, after the connection was pushed.
RECURSIVE AddConnectionLoop(_, _, _)
AddConnectionLoop(g, cs, ch) ==
  IF Len(cs) = 0 THEN [threw |-> "", chart |-> g]
  ELSE
    LET c == ch[cs[1]]
        g1 == [g EXCEPT !.connections = PushNew(@, cs[1])]
    IN IF ~c.from_node.set THEN [threw |-> "TypeError", chart |-> g1]
       ELSE
         LET g2 == [g1 EXCEPT !.nodes = PushNew(@, c.from_node.node)]
         IN IF ~c.to_node.set THEN [threw |-> "TypeError", chart |-> g2]
            ELSE AddConnectionLoop(
                   [g2 EXCEPT !.nodes = PushNew(@, c.to_node.node)], Tail(cs), ch)

AddConnection(g, args, ch) ==
  IF ~AllInstanceOf(args, "Connection")
  THEN [threw |-> "TypeError", chart |-> g]
  ELSE AddConnectionLoop(g, Refs(args), ch)

\* The nodes property of a plain object: object 1 is { nodes: [node 1] },
\* every other plain object has none.
ObjectNodes(ref) ==
  IF ref = 1 THEN [has |-> TRUE, nodes |-> <<1>>] ELSE [has |-> FALSE, nodes |-> <<>>]

\* chart.nodes of an addSubgraph argument: iterable or not, and its elements
NodesOf(v, cs) ==
  CASE v.kind = "FlowChart" -> [has |-> TRUE, nodes |-> cs[v.ref].nodes]
    [] v.kind = "Object" -> ObjectNodes(v.ref)
    [] OTHER -> [has |-> FALSE, nodes |-> <<>>]

\* addSubgraph(...charts) on chart g; cs is the store of all charts
RECURSIVE AddSubgraph(_, _, _)
AddSubgraph(g, args, cs) ==
  IF Len(args) = 0 THEN [threw |-> "", chart |-> g]
  ELSE
    LET chart == args[1]
        g1 == IF chart.kind # "null"
              THEN [g EXCEPT !.subgraphs = PushNew(@, chart)] ELSE g
        ns == NodesOf(chart, cs)
    IN IF ~ns.has THEN [threw |-> "TypeError", chart |-> g1]
       ELSE AddSubgraph(
              [g1 EXCEPT !.nodes =
                 PushAll(@, SelectSeq(ns.nodes, LAMBDA n : n # Null))],
              Tail(args), cs)

\* addStyle(classDef)
AddStyle(g, v) ==
  IF ~InstanceOf(v, "ClassDef") THEN [threw |-> "TypeError", chart |-> g]
  ELSE [threw |-> "", chart |-> [g EXCEPT !.style = v.ref]]

\* defaultClass(classDef): null or no ClassDef clears the default class, a
\* ClassDef is copied under the name "default" to the end of the heap clh
DefaultClass(g, v, clh) ==
  IF v.kind = "null" \/ ~InstanceOf(v, "ClassDef")
  THEN [threw |-> "", chart |-> [g EXCEPT !.default_class = None], heap |-> clh]
  ELSE [threw |-> "",
        chart |-> [g EXCEPT !.default_class = Some(Len(clh) + 1)],
        heap |-> Append(clh, ClassDefFrom(clh[v.ref], "default"))]

\* defaultLink(linkDef): LinkDef.from throws for anything but a LinkDef
DefaultLink(g, v, clh) ==
  IF v.kind # "LinkDef" THEN [threw |-> "TypeError", chart |-> g, heap |-> clh]
  ELSE [threw |-> "",
        chart |-> [g EXCEPT !.default_link = Some(Len(clh) + 1)],
        heap |-> Append(clh, LinkDefFrom(clh[v.ref]))]

\* The elements of a chart's collection as the arguments of a call
\* (...chart.classes and so on); kind gives the class of the element h
Spreading(list, kind) ==
  [i \in 1..Len(list) |-> IF list[i] = Null THEN NullVal ELSE Val(kind[list[i]], list[i])]

\* The k-th call of the chain FlowChart.from(chart) makes on the new chart:
\* addClass, addConnection, addDirective, addNode, addStyle, addSubgraph,
\* named, each with the source's elements.  r is what the calls before have
\* given; a call that throws ends the chain.
RECURSIVE FromCalls(_, _, _, _, _, _)
FromCalls(k, src, r, cs, ch, clh) ==
  IF k > 7 \/ r.threw # "" THEN r
  ELSE FromCalls(k + 1, src,
         CASE k = 1 -> AddClass(r.chart,
                         Spreading(src.classes, [h \in DOMAIN clh |-> clh[h].kind]))
           [] k = 2 -> AddConnection(r.chart,
                         Spreading(src.connections, [h \in DOMAIN ch |-> "Connection"]),
                         ch)
           [] k = 3 -> AddDirective(r.chart,
                         Spreading(src.directives,
                                   [h \in Range(src.directives) |-> "Directive"]))
           [] k = 4 -> AddNode(r.chart,
                         Spreading(src.nodes,
                                   [h \in Range(src.nodes) |-> "ChartNode"]))
           [] k = 5 -> AddStyle(r.chart,
                         Spreading(<<src.style>>,
                                   [h \in DOMAIN clh |-> clh[h].kind])[1])
           [] k = 6 -> AddSubgraph(r.chart, src.subgraphs, cs)
           [] k = 7 -> [threw |-> "", chart |-> [r.chart EXCEPT !.name = src.name]],
         cs, ch, clh)

\* FlowChart.from(chart) with argument value v: exception and new chart
FlowChartFrom(v, cs, ch, clh) ==
  IF v.kind # "FlowChart" THEN [threw |-> "TypeError", chart |-> FlowChartNew(None)]
  ELSE FromCalls(1, cs[v.ref], [threw |-> "", chart |-> FlowChartNew(None)],
                 cs, ch, clh)

\* findNode(id): nodes.find(n => n.id === id); reading .id of null throws
RECURSIVE FindIn(_, _, _)
FindIn(ns, id, nh) ==
  IF Len(ns) = 0 THEN [threw |-> "", found |-> FALSE, node |-> Null]
  ELSE IF ns[1] = Null THEN [threw |-> "TypeError", found |-> FALSE, node |-> Null]
  ELSE IF nh[ns[1]].id = id THEN [threw |-> "", found |-> TRUE, node |-> ns[1]]
  ELSE FindIn(Tail(ns), id, nh)

FindNode(g, id, nh) == FindIn(g.nodes, id, nh)

----------------------------------------------------------------------------
(* flowchart.js: render and subRender.  A partial result is a record       *)
(* [threw, parts, emits, heap, gen]: the exception thrown ("" for none),   *)
(* the texts collected, the node.render() calls made, and the node heap    *)
(* and generator counter reached.                                           *)

Partial(threw, parts, emits, nh, gen) ==
  [threw |-> threw, parts |-> parts, emits |-> emits, heap |-> nh, gen |-> gen]

\* acc followed by r; r is not looked at when acc has thrown
Then(acc, r) ==
  IF acc.threw # "" THEN acc
  ELSE Partial(r.threw, acc.parts \o r.parts, acc.emits \o r.emits, r.heap, r.gen)

ConnectionPart(r, indent, gen) ==
  Partial(r.threw, IF r.threw = "" THEN <<indent \o r.text>> ELSE <<>>,
          r.emits, r.heap, gen)

\* connections.map(c => indent + c.render()) over connection handles cs,
\* continuing the partial result acc
RECURSIVE RenderConnections(_, _, _, _)
RenderConnections(cs, ch, indent, acc) ==
  IF Len(cs) = 0 \/ acc.threw # "" THEN acc
  ELSE RenderConnections(Tail(cs), ch, indent,
         Then(acc, ConnectionPart(ConnectionRender(ch[cs[1]], acc.heap),
                                  indent, acc.gen)))

NodePart(h, r, nh, gen) ==
  Partial("", <<r.text>>, <<Emit(h, r)>>, WithNode(nh, h, r.node), gen)

\* nodes.reduce(...): each node not yet rendered is rendered, in order;
\* reading hasBeenRendered of a null element throws.
RECURSIVE RenderUnrendered(_, _)
RenderUnrendered(ns, acc) ==
  IF Len(ns) = 0 \/ acc.threw # "" THEN acc
  ELSE IF ns[1] = Null
  THEN Partial("TypeError", acc.parts, acc.emits, acc.heap, acc.gen)
  ELSE IF acc.heap[ns[1]].hasBeenRendered THEN RenderUnrendered(Tail(ns), acc)
  ELSE RenderUnrendered(Tail(ns),
         Then(acc, NodePart(ns[1], ChartNodeRender(acc.heap[ns[1]]),
                            acc.heap, acc.gen)))

\* nodes.filter(n => !n.hasBeenRendered).map(n => n.render()): the filter
\* reads every element before any node is rendered.
RenderFiltered(ns, acc) ==
  IF acc.threw # "" THEN acc
  ELSE IF Includes(ns, Null)
  THEN Partial("TypeError", acc.parts, acc.emits, acc.heap, acc.gen)
  ELSE RenderUnrendered(
         SelectSeq(ns, LAMBDA n : ~acc.heap[n].hasBeenRendered), acc)

\* nodes.forEach(n => n.reset())
ResetNodes(ns, nh) ==
  [h \in DOMAIN nh |-> IF Includes(ns, h) THEN ChartNodeReset(nh[h]) ELSE nh[h]]

Start(nh, gen) == Partial("", <<>>, <<>>, nh, gen)

\* The array styles of subRender(), which has its own loop over the entries
SubgraphTokens(style) ==
  [i \in 1..Len(SetKeys(style)) |->
     (IF SetKeys(style)[i] = "strokeWidth" THEN "stroke-width"
      ELSE IF SetKeys(style)[i] = "strokeDash" THEN "stroke-dasharray"
      ELSE SetKeys(style)[i]) \o ":" \o style[SetKeys(style)[i]][1]]

\* The style line subRender() appends when the chart has a style
SubgraphStyle(s, clh) ==
  IF s.style # Null
  THEN "style " \o (IF IsNull(s.name) THEN "null" ELSE s.name[1]) \o " "
         \o Join(SubgraphTokens(clh[s.style].style), ",")
  ELSE ""

\* The result of subRender(): name is the subgraph's name, rc and rn what
\* rendering the connections and then the remaining nodes gave
SubRenderResult(s, clh, name, rc, rn) ==
  IF rn.threw # "" THEN Partial(rn.threw, <<>>, rn.emits, rn.heap, rn.gen)
  ELSE Partial("",
         <<"\nsubgraph " \o name \o "\n" \o Join(rc.parts, "\n") \o "\n"
             \o Join(rn.parts, "\n") \o "end\n" \o SubgraphStyle(s, clh)>>,
         rn.emits, ResetNodes(s.nodes, rn.heap), rn.gen)

SubRenderNodes(s, clh, name, rc) ==
  SubRenderResult(s, clh, name, rc,
                  RenderFiltered(s.nodes, Start(rc.heap, rc.gen)))

SubRenderNamed(s, ch, nh, clh, g1) ==
  SubRenderNodes(s, clh, g1.value,
                 RenderConnections(s.connections, ch, "  ", Start(nh, g1.counter)))

\* subRender() of chart s; the name of an unnamed chart is drawn from the
\* generator at every call
SubRender(s, ch, nh, clh, gen) ==
  SubRenderNamed(s, ch, nh, clh,
                 IF IsNull(s.name) THEN IdGeneratorNext("sub", gen)
                 ELSE [value |-> s.name[1], counter |-> gen])

\* subgraphs.map(g => g.subRender()) over the entries subs; an entry that is
\* no FlowChart has no subRender method
RECURSIVE RenderSubgraphs(_, _, _, _, _)
RenderSubgraphs(subs, cs, ch, clh, acc) ==
  IF Len(subs) = 0 \/ acc.threw # "" THEN acc
  ELSE IF subs[1].kind # "FlowChart"
  THEN Partial("TypeError", acc.parts, acc.emits, acc.heap, acc.gen)
  ELSE RenderSubgraphs(Tail(subs), cs, ch, clh,
         Then(acc, SubRender(cs[subs[1].ref], ch, acc.heap, clh, acc.gen)))

NodesOfClass(g, c, nh) == SelectSeq(g.nodes, LAMBDA n : nh[n].node_class = c)

IdsOf(ns, nh) == [i \in 1..Len(ns) |-> nh[ns[i]].id]

\* The class-assignment line of class handle c
ClassLine(g, c, nh, clh) ==
  "class " \o Join(IdsOf(NodesOfClass(g, c, nh), nh), ",") \o " " \o clh[c].name
    \o "\n"

ClassSection(g, c, nh, clh) == StyleRender(clh[c]) \o ClassLine(g, c, nh, clh)

LinkClassSection(c, clh) ==
  IF ~IsNull(c.link_class) THEN StyleRender(clh[c.link_class[1]]) ELSE ""

\* A style section that puts the default link before the classes
StyleSectionLinkFirst(g, ch, nh, clh) ==
  (IF ~IsNull(g.default_class) THEN StyleRender(clh[g.default_class[1]]) ELSE "")
    \o (IF ~IsNull(g.default_link) THEN StyleRender(clh[g.default_link[1]]) ELSE "")
    \o Concat([i \in 1..Len(g.classes) |-> ClassSection(g, g.classes[i], nh, clh)])
    \o Concat([i \in 1..Len(g.connections) |->
                 LinkClassSection(ch[g.connections[i]], clh)])

\* The text render() appends after the reset: default class, classes with
\* their class lines, default link, the connections' link classes
StyleSection(g, ch, nh, clh) ==
  (IF ~IsNull(g.default_class) THEN StyleRender(clh[g.default_class[1]]) ELSE "")
    \o Concat([i \in 1..Len(g.classes) |-> ClassSection(g, g.classes[i], nh, clh)])
    \o (IF ~IsNull(g.default_link) THEN StyleRender(clh[g.default_link[1]]) ELSE "")
    \o Concat([i \in 1..Len(g.connections) |->
                 LinkClassSection(ch[g.connections[i]], clh)])

\* The directives and the flowchart line
Header(g, dh) ==
  (IF Len(g.directives) > 0
   THEN Join([i \in 1..Len(g.directives) |-> DirectiveRender(dh[g.directives[i]])],
             "\n")
   ELSE "")
    \o "flowchart " \o g.chart_direction \o "\n"

RenderReset(g, text, emits, nh3, gen, ch, clh) ==
  [threw |-> "", text |-> text \o StyleSection(g, ch, nh3, clh), emits |-> emits,
   heap |-> nh3, gen |-> gen]

\* The result of render(): rc, rn, rs are what rendering the connections,
\* the remaining nodes and the subgraphs gave
RenderResult(g, ch, clh, dh, rc, rn, rs) ==
  IF rs.threw # ""
  THEN [threw |-> rs.threw, text |-> "", emits |-> rs.emits, heap |-> rs.heap,
        gen |-> rs.gen]
  ELSE RenderReset(g,
         Header(g, dh) \o Join(rc.parts, "\n") \o "\n" \o Join(rn.parts, "\n")
           \o Join(rs.parts, "\n"),
         rs.emits, ResetNodes(g.nodes, rs.heap), rs.gen, ch, clh)

RenderSubs(g, cs, ch, clh, dh, rc, rn) ==
  RenderResult(g, ch, clh, dh, rc, rn,
    RenderSubgraphs(g.subgraphs, cs, ch, clh,
                    Partial(rn.threw, <<>>, rn.emits, rn.heap, rn.gen)))

RenderNodes(g, cs, ch, clh, dh, rc) ==
  RenderSubs(g, cs, ch, clh, dh, rc,
    RenderUnrendered(g.nodes, Partial(rc.threw, <<>>, rc.emits, rc.heap, rc.gen)))

\* render() of chart g: exception, text, the node.render() calls of the pass,
\* node heap and generator counter after the call
Render(g, cs, ch, nh, clh, dh, gen) ==
  RenderNodes(g, cs, ch, clh, dh,
              RenderConnections(g.connections, ch, "", Start(nh, gen)))

----------------------------------------------------------------------------
(* The state-machine adapter (the function of two arguments, machine and   *)
(* options, that returns the title block and the rendered chart).  A       *)
(* string of the machine that the adapter splits, searches or rewrites is  *)
(* a sequence of characters.                                               *)

\* A value of machine.tags: undefined, a string, or an array of such values
TagUndefined == [kind |-> "undefined", chars |-> <<>>, items |-> <<>>]
TagString(chars) == [kind |-> "string", chars |-> chars, items |-> <<>>]
TagArray(items) == [kind |-> "array", chars |-> <<>>, items |-> items]

\* No machine: the adapter has not been handed one
NoMachine == [id |-> "", tags |-> TagUndefined, states |-> <<>>]

\* String.prototype.split(sep): the pieces between the separators; piece is
\* the piece being read
RECURSIVE SplitFrom(_, _, _)
SplitFrom(chars, sep, piece) ==
  IF Len(chars) = 0 THEN <<piece>>
  ELSE IF chars[1] = sep THEN <<piece>> \o SplitFrom(Tail(chars), sep, <<>>)
  ELSE SplitFrom(Tail(chars), sep, Append(piece, chars[1]))

Split(chars, sep) == SplitFrom(chars, sep, <<>>)

\* String.prototype.includes(sub)
StrIncludes(chars, sub) ==
  \E i \in 0..(Len(chars) - Len(sub)) : SubSeq(chars, i + 1, i + Len(sub)) = sub

\* key.replace(/\s/g, "_")
ReplaceSpaces(chars) ==
  [i \in 1..Len(chars) |-> IF chars[i] \in WhiteSpace THEN "_" ELSE chars[i]]

\* A nullable string that is neither absent nor empty
Truthy(v) == ~IsNull(v) /\ v[1] # ""

\* if (!machine.tags?.length) machine.tags = [machine.tags]
NormalizeTags(tags) ==
  IF tags.kind = "undefined" \/ (Len(tags.chars) = 0 /\ Len(tags.items) = 0)
  THEN TagArray(<<tags>>)
  ELSE tags

\* The entries of Object.fromEntries(parts.map(t => t.split("=")))
VarEntries(parts) ==
  [i \in 1..Len(parts) |->
     <<Concat(Split(parts[i], "=")[1]),
       IF Len(Split(parts[i], "=")) >= 2 THEN Concat(Split(parts[i], "=")[2])
       ELSE "">>]

\* The switch over tag[0], tag = value.split(":"): exception and directive
ApplyTagParts(d, tag) ==
  CASE Concat(tag[1]) = "curve" ->
         DirectiveFlowchart(d, <<<<"curve",
                                   IF Len(tag) >= 2 THEN Concat(tag[2]) ELSE "">>>>)
    [] Concat(tag[1]) = "var" ->
         [threw |-> "", dir |-> DirectiveVariables(d, VarEntries(Tail(tag)))]
    [] OTHER -> [threw |-> "", dir |-> d]

\* The callback of machine.tags.forEach for one value: only a string has a
\* split method
ApplyTag(r, value) ==
  IF r.threw # "" THEN r
  ELSE IF value.kind # "string" THEN [threw |-> "TypeError", dir |-> r.dir]
  ELSE ApplyTagParts(r.dir, Split(value.chars, ":"))

RECURSIVE ApplyTagsFrom(_, _)
ApplyTagsFrom(items, r) ==
  IF Len(items) = 0 THEN r ELSE ApplyTagsFrom(Tail(items), ApplyTag(r, items[1]))

\* machine.tags.forEach(...) on a new Directive: only an array has forEach
ApplyTags(tags) ==
  IF tags.kind # "array" THEN [threw |-> "TypeError", dir |-> DirectiveNew]
  ELSE ApplyTagsFrom(tags.items, [threw |-> "", dir |-> DirectiveNew])

\* What the adapter has built so far: exception, chart, and the heaps with
\* the objects it made
Built(threw, chart, nh, ch, clh, dh) ==
  [threw |-> threw, chart |-> chart, nh |-> nh, ch |-> ch, clh |-> clh, dh |-> dh]

\* chart.defaultLink(linkClass).addDirective(directive): dl is what
\* defaultLink returned, the directive gets the next handle of dh
StartDirective(dl, dir, nh, ch, dh) ==
  Built(dl.threw,
        AddDirective(dl.chart, <<Val("Directive", Len(dh) + 1)>>).chart,
        nh, ch, dl.heap, Append(dh, dir))

\* Lines 45 to 63: chart, link style, tags, default link and directive
AdapterStart(m, nh, ch, clh, dh, tagged) ==
  IF tagged.threw # ""
  THEN Built(tagged.threw, FlowChartNew(Some(m.id)), nh, ch, clh, dh)
  ELSE StartDirective(
         DefaultLink(FlowChartNew(Some(m.id)), Val("LinkDef", Len(clh) + 1),
                     Append(clh, StyleSet(LinkDefNew, "stroke", Some("white")))),
         tagged.dir, nh, ch, dh)

\* options[v] for a state's type or tags value v: undefined when v is
\* absent or no key of the table
OptionOf(options, v) ==
  IF ~IsNull(v) /\ v[1] \in DOMAIN options THEN Some(options[v[1]]) ELSE None

\* new ChartNode(key.replace(/\s/g, "_")).text(value.description ?? key)
StateNode(st) ==
  ChartNodeText(ChartNodeNew(Concat(ReplaceSpaces(st.key))),
                IF IsNull(st.description) THEN Concat(st.key) ELSE st.description[1])

\* chart.addClass(entry.class); node.class(entry.class).shape(entry.shape)
\* with v the class as argument value
StyledWith(chart, node, entry, v) ==
  [threw |-> IF AddClass(chart, <<v>>).threw # "" THEN AddClass(chart, <<v>>).threw
             ELSE IF ChartNodeClass(node, v).threw # ""
             THEN ChartNodeClass(node, v).threw
             ELSE ChartNodeShape(ChartNodeClass(node, v).node,
                                 ShapeName(entry.shape)).threw,
   chart |-> AddClass(chart, <<v>>).chart,
   node |-> ChartNodeShape(ChartNodeClass(node, v).node, ShapeName(entry.shape)).node]

\* Lines 68 to 71: the test reads options[value.tags] or options[value.type],
\* the body options[value.type ?? value.tags]
StyledNode(st, options, chart, node, clh) ==
  IF ~(/\ Truthy(st.type) \/ Truthy(st.tags)
       /\ ~IsNull(OptionOf(options, st.tags)) \/ ~IsNull(OptionOf(options, st.type)))
  THEN [threw |-> "", chart |-> chart, node |-> node]
  ELSE IF IsNull(OptionOf(options, IF ~IsNull(st.type) THEN st.type ELSE st.tags))
  THEN [threw |-> "TypeError", chart |-> chart, node |-> node]
  ELSE StyledWith(chart, node,
         OptionOf(options, IF ~IsNull(st.type) THEN st.type ELSE st.tags)[1],
         Val(clh[OptionOf(options, IF ~IsNull(st.type) THEN st.type
                                   ELSE st.tags)[1].class].kind,
             OptionOf(options, IF ~IsNull(st.type) THEN st.type
                               ELSE st.tags)[1].class))

\* nodes.set(key, node); chart.addNode(node): r is what lines 68 to 71 gave
AddStateNode(a, r) ==
  IF r.threw # "" THEN [a EXCEPT !.threw = r.threw]
  ELSE [a EXCEPT !.nh = Append(a.nh, r.node),
                 !.chart = AddNode(r.chart, <<Val("ChartNode", Len(a.nh) + 1)>>).chart]

\* The first loop over the states
RECURSIVE AddStates(_, _, _)
AddStates(states, options, a) ==
  IF Len(states) = 0 \/ a.threw # "" THEN a
  ELSE AddStates(Tail(states), options,
         AddStateNode(a, StyledNode(states[1], options, a.chart,
                                    StateNode(states[1]), a.clh)))

\* nodes.get(key): the node of the state with that key, made in the order
\* of the states after the base nodes of the heap; null (from undefined, by
\* the default of from() and to()) when there is no such state
NodeOf(states, key, base) ==
  IF \E i \in 1..Len(states) : states[i].key = key
  THEN base + CHOOSE i \in 1..Len(states) : states[i].key = key
  ELSE Null

\* Line 81: the style of the first tag that includes "link", if any does
LinkTags(tags) ==
  SelectSeq(tags.items, LAMBDA t : StrIncludes(t.chars, <<"l", "i", "n", "k">>))

LinkStyled(c, hits) ==
  IF Len(hits) = 0 THEN c
  ELSE ConnectionStyle(c, IF Len(Split(hits[1].chars, ":")) >= 2
                          THEN Some(Concat(Split(hits[1].chars, ":")[2]))
                          ELSE None)

\* Lines 78 to 82: the connection for one transition
LinkConnection(from, to, link, tags) ==
  (IF Truthy(link.description)
   THEN ConnectionText(LinkStyled(
          ConnectionTo(ConnectionFrom(ConnectionNew(DepthOmitted).conn,
                                      from, FALSE, "default"),
                       to, TRUE, "default"),
          LinkTags(tags)), link.description)
   ELSE LinkStyled(
          ConnectionTo(ConnectionFrom(ConnectionNew(DepthOmitted).conn,
                                      from, FALSE, "default"),
                       to, TRUE, "default"),
          LinkTags(tags)))

\* chart.addConnection(connection), the connection at the end of the heap
AddLink(a, c) ==
  [a EXCEPT !.ch = Append(a.ch, c),
            !.chart = AddConnection(a.chart, <<Val("Connection", Len(a.ch) + 1)>>,
                                    Append(a.ch, c)).chart]

\* The transitions of one state, whose node is from
RECURSIVE AddLinks(_, _, _, _, _)
AddLinks(links, from, m, base, a) ==
  IF Len(links) = 0 THEN a
  ELSE AddLinks(Tail(links), from, m, base,
         AddLink(a, LinkConnection(from, NodeOf(m.states, links[1].target, base),
                                   links[1], m.tags)))

\* The second loop over the states, from state i on
RECURSIVE AddTransitions(_, _, _, _)
AddTransitions(i, m, base, a) ==
  IF i > Len(m.states) \/ a.threw # "" THEN a
  ELSE AddTransitions(i + 1, m, base,
         IF IsNull(m.states[i].on) THEN a
         ELSE AddLinks(m.states[i].on[1], base + i, m, base, a))

\* return title + chart.render(): rendered is what render() gave
AdapterResult(m, a, rendered) ==
  [threw |-> IF a.threw # "" THEN a.threw ELSE rendered.threw,
   text |-> "---\ntitle: " \o m.id \o "\n---\n" \o rendered.text,
   chart |-> a.chart, nh |-> rendered.heap, ch |-> a.ch, clh |-> a.clh,
   dh |-> a.dh, gen |-> rendered.gen]

AdapterRender(m, cs, gen, a) ==
  IF a.threw # ""
  THEN [threw |-> a.threw, text |-> "", chart |-> a.chart, nh |-> a.nh,
        ch |-> a.ch, clh |-> a.clh, dh |-> a.dh, gen |-> gen]
  ELSE AdapterResult(m, a, Render(a.chart, cs, a.ch, a.nh, a.clh, a.dh, gen))

\* The adapter on machine m, whose tags line 48 has already rewritten
processStately(m, options, cs, nh, ch, clh, dh, gen) ==
  AdapterRender(m, cs, gen,
    AddTransitions(1, m, Len(nh),
      AddStates(m.states, options,
        AdapterStart(m, nh, ch, clh, dh, ApplyTags(m.tags)))))

----------------------------------------------------------------------------
(* The caller: it holds three nodes (1: A "Start", 2: B "End", 3: a second *)
(* node with id A), a ClassDef, a LinkDef, a Directive and two charts, G   *)
(* and the unnamed chart S, and issues calls in any order.                 *)

G == 1
S == 2

N(h) == Val("ChartNode", h)
C(h) == Val("Connection", h)
K(h) == Val(IF h = 2 THEN "LinkDef" ELSE "ClassDef", h)
D(h) == Val("Directive", h)
F(h) == Val("FlowChart", h)
O(h) == Val("Object", h)

Home == <<"H", "o", "m", "e">>
About == <<"A", "b", "o", "u", "t">>

\* The record kept of the last call
Call(op, chart, threw) ==
  [op |-> op, chart |-> chart, threw |-> threw, args |-> <<>>,
   depth |-> DepthOmitted, found |-> FALSE, node |-> Null, emits |-> <<>>,
   text |-> "", line |-> "", styles |-> <<>>]

InitObjects ==
  /\ nodeHeap = <<ChartNodeText(ChartNodeNew("A"), "Start"),
                  ChartNodeText(ChartNodeNew("B"), "End"),
                  [ChartNodeText(ChartNodeNew("A"), "Alt") EXCEPT
                     !.node_shape = Some("round-rect"), !.node_class = 1]>>
  /\ connHeap = <<>>
  /\ classHeap = <<[ClassDefNew("hot") EXCEPT !.style.fill = Some("red")],
                   [LinkDefNew EXCEPT !.style.stroke = Some("white")]>>
  /\ dirHeap = <<[DirectiveNew EXCEPT !.theme = Some("dark")]>>
  /\ subgraphGen = 0
  /\ newId = 0
  /\ machine = NoMachine
  /\ input = <<>>
  /\ renders = <<>>
  /\ calls = 0
  /\ last = Call("new", G, "")

Init ==
  /\ InitObjects
  /\ charts = <<FlowChartNew(None), FlowChartNew(None)>>

\* e = new Connection().from(node 1).to(t, true)
NewEdge(t) ==
  /\ Len(connHeap) < MaxConns
  /\ connHeap' = Append(connHeap,
       ConnectionTo(ConnectionFrom(ConnectionNew(DepthOmitted).conn,
                                   1, FALSE, "default"),
                    t, TRUE, "default"))
  /\ renders' = <<>>
  /\ last' = Call("Connection", G, "")
  /\ UNCHANGED <<nodeHeap, classHeap, dirHeap, newId, machine, input, charts, subgraphGen>>

\* e.to(t, true) on an existing connection
SetTo(e, t) ==
  /\ e \in 1..Len(connHeap)
  /\ connHeap' = [connHeap EXCEPT ![e] = ConnectionTo(@, t, TRUE, "default")]
  /\ renders' = <<>>
  /\ last' = Call("to", G, "")
  /\ UNCHANGED <<nodeHeap, classHeap, dirHeap, newId, machine, input, charts, subgraphGen>>

\* An add-operation's effect on the state: r is what the operation returned
Added(op, g, args, r) ==
  /\ charts' = [charts EXCEPT ![g] = r.chart]
  /\ renders' = <<>>
  /\ last' = [Call(op, g, r.threw) EXCEPT !.args = args]
  /\ UNCHANGED <<nodeHeap, connHeap, classHeap, dirHeap, newId, machine, input, subgraphGen>>

DoAddNode(g, args) == Added("addNode", g, args, AddNode(charts[g], args))

DoAddConnection(g, args) ==
  Added("addConnection", g, args, AddConnection(charts[g], args, connHeap))

DoAddClass(g, args) == Added("addClass", g, args, AddClass(charts[g], args))

DoAddDirective(g, args) ==
  Added("addDirective", g, args, AddDirective(charts[g], args))

DoAddSubgraph(g, args) ==
  Added("addSubgraph", g, args, AddSubgraph(charts[g], args, charts))

\* connect(s1, s2, depth) with two strings
DoConnect(g, strs, depth) ==
  LET n1 == Len(nodeHeap) + 1
      n2 == Len(nodeHeap) + 2
      made == ConnectionNew(depth)
      conn == ConnectionTo(ConnectionFrom(made.conn, n1, FALSE, "default"),
                           n2, FALSE, "default")
      e == Len(connHeap) + 1
      r == AddConnection(charts[g], <<C(e)>>, Append(connHeap, conn))
  IN /\ Len(connHeap) < MaxConns
     /\ last' = [Call("connect", g, IF made.threw # "" THEN made.threw ELSE r.threw)
                   EXCEPT !.args = strs, !.depth = depth]
     /\ renders' = <<>>
     /\ IF made.threw # ""
        THEN UNCHANGED <<nodeHeap, connHeap, charts>>
        ELSE /\ nodeHeap' = nodeHeap \o
                  <<ChartNodeText(ChartNodeNew(Concat(slugify(strs[1]))),
                                  Concat(strs[1])),
                    ChartNodeText(ChartNodeNew(Concat(slugify(strs[2]))),
                                  Concat(strs[2]))>>
             /\ connHeap' = Append(connHeap, conn)
             /\ charts' = [charts EXCEPT ![g] = r.chart]
     /\ UNCHANGED <<classHeap, dirHeap, newId, machine, input, subgraphGen>>

DoFindNode(g, id) ==
  LET r == FindNode(charts[g], id, nodeHeap)
  IN /\ last' = [Call("findNode", g, r.threw) EXCEPT
                   !.args = <<id>>, !.found = r.found, !.node = r.node]
     /\ UNCHANGED <<nodeHeap, connHeap, classHeap, dirHeap, newId, machine, input, charts,
                    subgraphGen,
                    renders, calls>>

\* G.render(); the texts of the calls since the last mutation are kept
DoRender ==
  LET r == Render(charts[G], charts, connHeap, nodeHeap, classHeap, dirHeap,
                  subgraphGen)
  IN /\ Len(renders) < MaxRenders
     /\ subgraphGen < MaxGen
     /\ nodeHeap' = r.heap
     /\ subgraphGen' = r.gen
     /\ renders' = IF r.threw = "" THEN Append(renders, r.text) ELSE renders
     /\ last' = [Call("render", G, r.threw) EXCEPT !.emits = r.emits, !.text = r.text]
     /\ UNCHANGED <<connHeap, classHeap, dirHeap, newId, machine, input, charts, calls>>

----------------------------------------------------------------------------
(* Spec: builder runs.  The caller makes at most MaxCalls mutating calls,  *)
(* with argument lists that mix entities of the right and the wrong kind,  *)
(* and may look a node up at any time.  render() is left to SpecRender: it *)
(* changes no collection.                                                  *)

Counted(A) == calls < MaxCalls /\ A /\ calls' = calls + 1

NodeArgs ==
  {<<N(1)>>, <<N(3)>>, <<N(2), N(1)>>, <<N(2), NullVal>>, <<K(1), N(2)>>}
ConnectionArgs ==
  {<<C(e)>> : e \in 1..Len(connHeap)}
    \cup {<<C(2), C(1)>> : e \in {x \in {2} : x <= Len(connHeap)}}
    \cup {<<C(e), N(1)>> : e \in 1..Len(connHeap)}
ClassArgs == {<<K(1)>>, <<K(2), K(1)>>, <<K(1), D(1)>>}
DirectiveArgs == {<<D(1)>>, <<D(1), NullVal>>}
SubgraphArgs == {<<F(S)>>, <<O(1)>>, <<O(2)>>, <<NullVal>>, <<F(S), NullVal>>}
ConnectStrings == {<<Home, About>>, <<Home, Home>>}
ConnectDepths == {DepthOmitted, DepthNumber(3)}
FindIds == {"A", "B", "none"}

Next ==
  \/ \E t \in {2, Null} : Counted(NewEdge(t))
  \/ \E args \in NodeArgs : Counted(DoAddNode(G, args))
  \/ Counted(DoAddNode(S, <<N(3)>>))
  \/ \E args \in ConnectionArgs : Counted(DoAddConnection(G, args))
  \/ \E args \in ClassArgs : Counted(DoAddClass(G, args))
  \/ \E args \in DirectiveArgs : Counted(DoAddDirective(G, args))
  \/ \E args \in SubgraphArgs : Counted(DoAddSubgraph(G, args))
  \/ \E strs \in ConnectStrings, depth \in ConnectDepths :
       Counted(DoConnect(G, strs, depth))
  \/ \E id \in FindIds : DoFindNode(G, id)

Spec == Init /\ [][Next]_vars

----------------------------------------------------------------------------
(* SpecRender: the caller builds G from well-typed arguments, may attach   *)
(* an edge's end again after the edge was added, and renders G.           *)

Kept(A) == A /\ UNCHANGED calls

NextRender ==
  \/ \E t \in {2, Null} : Kept(NewEdge(t))
  \/ \E e \in 1..MaxConns : Kept(SetTo(e, 3))
  \/ \E e \in 1..MaxConns : e <= Len(connHeap) /\ Kept(DoAddConnection(G, <<C(e)>>))
  \/ Kept(DoAddNode(G, <<N(3)>>))
  \/ Kept(DoAddSubgraph(G, <<F(S)>>))
  \/ DoRender

SpecRender == Init /\ [][NextRender]_vars

----------------------------------------------------------------------------
(* SpecEdge: the caller constructs one edge e with any depth argument, sets *)
(* its ends (from node 1, to node 2 or to no node), line style and label in *)
(* any order, and renders it, directly or as the only edge of a new chart.  *)

DepthArgs == {DepthOmitted} \cup {DepthNumber(h) : h \in -4..(2 * MaxDepth)}
Arrows == {<<FALSE, "default">>, <<TRUE, "default">>, <<TRUE, "round">>, <<TRUE, "x">>}
LineStyles == {None, Some("dotted"), Some("thick")}
Labels == {None, Some("yes")}
Directions == {"TB", "LR"}

\* e = new Connection(depth)
ENew(depth) ==
  LET made == ConnectionNew(depth)
  IN /\ connHeap' = IF made.threw = "" THEN <<made.conn>> ELSE connHeap
     /\ last' = [Call("new Connection", G, made.threw) EXCEPT !.depth = depth]
     /\ UNCHANGED <<nodeHeap, classHeap, dirHeap, newId, machine, input, charts, subgraphGen,
                    renders, calls>>

\* A setter of e: c is e after the call
ESet(op, c) ==
  /\ Len(connHeap) = 1
  /\ connHeap' = <<c>>
  /\ last' = Call(op, G, "")
  /\ UNCHANGED <<nodeHeap, classHeap, dirHeap, newId, machine, input, charts, subgraphGen,
                 renders, calls>>

EFrom(arrow, arrowStyle) ==
  ESet("from", ConnectionFrom(connHeap[1], 1, arrow, arrowStyle))

ETo(node, arrow, arrowStyle) ==
  ESet("to", ConnectionTo(connHeap[1], node, arrow, arrowStyle))

EStyle(style) == ESet("style", ConnectionStyle(connHeap[1], style))

EText(text) == ESet("text", ConnectionText(connHeap[1], text))

\* e.render()
ERender ==
  LET r == ConnectionRender(connHeap[1], nodeHeap)
  IN /\ Len(connHeap) = 1
     /\ nodeHeap' = r.heap
     /\ last' = [Call("Connection.render", G, r.threw) EXCEPT
                   !.emits = r.emits, !.text = r.text, !.line = r.line]
     /\ UNCHANGED <<connHeap, classHeap, dirHeap, newId, machine, input, charts, subgraphGen,
                    renders, calls>>

\* new FlowChart().direction(dir).addConnection(e).render()
EGraphRender(dir) ==
  LET a == AddConnection(FlowChartDirection(FlowChartNew(None), dir), <<C(1)>>,
                         connHeap)
      r == Render(a.chart, charts, connHeap, nodeHeap, classHeap, dirHeap,
                  subgraphGen)
  IN /\ Len(connHeap) = 1
     /\ IF a.threw # ""
        THEN /\ last' = [Call("addConnection", G, a.threw) EXCEPT !.args = <<dir>>]
             /\ UNCHANGED nodeHeap
        ELSE /\ last' = [Call("render", G, r.threw) EXCEPT
                           !.args = <<dir>>, !.emits = r.emits, !.text = r.text]
             /\ nodeHeap' = r.heap
     /\ UNCHANGED <<connHeap, classHeap, dirHeap, newId, machine, input, charts, subgraphGen,
                    renders, calls>>

NextEdge ==
  \/ \E depth \in DepthArgs : ENew(depth)
  \/ \E a \in Arrows : EFrom(a[1], a[2])
  \/ \E a \in Arrows : ETo(2, a[1], a[2])
  \/ ETo(Null, FALSE, "default")
  \/ \E style \in LineStyles : EStyle(style)
  \/ \E text \in Labels : EText(text)
  \/ ERender
  \/ \E dir \in Directions : EGraphRender(dir)

SpecEdge == Init /\ [][NextEdge]_vars

----------------------------------------------------------------------------
(* Properties of rendering, checked under SpecRender.                      *)

\* C1: two consecutive render() calls of the same graph, with no mutation in
\* between, return the same text (renders holds the texts returned since the
\* last mutation).
C1_RenderTwiceSame == Len(renders) >= 2 => renders[1] = renders[2]

\* The edges of chart g that have node n at an end
EdgesAt(g, n) ==
  {i \in 1..Len(charts[g].connections) :
     LET c == connHeap[charts[g].connections[i]]
     IN c.from_node.node = n \/ c.to_node.node = n}

\* The positions of node n in the node.render() calls of the last pass
Occurrences(n) == {i \in 1..Len(last.emits) : last.emits[i].node = n}

\* C2: in a render() pass of a graph without subgraphs, a node with text that
\* is an end of two or more edges is rendered with its shape-wrapped text at
\* its first occurrence and as its bare id at every later one.
C2_ShapedExactlyOnce ==
  (last.op = "render" /\ last.threw = "" /\ charts[G].subgraphs = <<>>) =>
    \A n \in 1..Len(nodeHeap) :
      (nodeHeap[n].node_text # "" /\ Cardinality(EdgesAt(G, n)) >= 2) =>
        \A i \in Occurrences(n) :
          last.emits[i].shaped <=> (\A j \in Occurrences(n) : i <= j)

----------------------------------------------------------------------------
(* Properties of one edge, checked under SpecEdge.                         *)

\* The last call was e.render() and it returned
EdgeRendered == last.op = "Connection.render" /\ last.threw = ""

ClaimedDepths == {2 * d : d \in 0..MaxDepth}

\* C3: the line body of a rendered dotted edge with a depth in 0..MaxDepth
\* has an odd number of characters, whichever ends carry an arrow.
C3_DottedLineOdd ==
  (EdgeRendered /\ connHeap[1].link_style = Some("dotted")
     /\ connHeap[1].depth \in ClaimedDepths)
    => Len(last.line) % 2 = 1

\* A dotted edge of depth 1 without arrows: 3 + 1 is even and was raised to 5
C3_Witness ==
  /\ EdgeRendered
  /\ connHeap[1].link_style = Some("dotted")
  /\ connHeap[1].depth = 2
  /\ ~connHeap[1].from_node.arrow /\ ~connHeap[1].to_node.arrow
  /\ last.line = "-.-.-"

\* The arrowhead of an edge end by its arrow style
Arrowhead(end, default) ==
  CASE end.arrowStyle = "round" -> "o"
    [] end.arrowStyle = "x" -> "x"
    [] OTHER -> default

\* 3 + depth, minus 1 if either end has an arrowhead (in halves)
ClaimedLength(c) ==
  6 + c.depth - (IF c.from_node.arrow \/ c.to_node.arrow THEN 2 ELSE 0)

\* The same, plus 1 if that is even and the line is dotted
AmendedLength(c) ==
  ClaimedLength(c)
    + (IF ClaimedLength(c) % 4 = 0 /\ c.link_style = Some("dotted") THEN 2 ELSE 0)

\* The characters of a line body by line style
LineChar(c, i) ==
  IF c.link_style = Some("dotted") THEN (IF i % 2 = 1 THEN "-" ELSE ".")
  ELSE IF c.link_style = Some("thick") THEN "=" ELSE "-"

\* A step in which e.render() returns text made of: the rendered from node,
\* the left arrowhead or a space, a line body of the amended or the claimed
\* length, the right arrowhead if any, the label in pipes and a space or one
\* space, the rendered to node
RenderFormat(amended) ==
  (last'.op = "Connection.render" /\ last'.threw = "") =>
    LET c == connHeap[1]
        r1 == ChartNodeRender(nodeHeap[c.from_node.node])
        r2 == ChartNodeRender(
                WithNode(nodeHeap, c.from_node.node, r1.node)[c.to_node.node])
    IN /\ 2 * Len(last'.line) =
            (IF amended THEN AmendedLength(c) ELSE ClaimedLength(c))
       /\ \A i \in 1..Len(last'.line) : SubSeq(last'.line, i, i) = LineChar(c, i)
       /\ last'.text =
            r1.text
              \o (IF c.from_node.arrow THEN Arrowhead(c.from_node, "<") ELSE " ")
              \o last'.line
              \o (IF c.to_node.arrow THEN Arrowhead(c.to_node, ">") ELSE "")
              \o (IF c.link_text = None THEN " "
                  ELSE "|" \o c.link_text[1] \o "| ")
              \o r2.text

\* The unstyled depth-default edge from A to B with an arrowhead at B
ExampleEdge ==
  ConnectionTo(ConnectionFrom(ConnectionNew(DepthOmitted).conn, 1, FALSE, "default"),
               2, TRUE, "default")

Fresh == ~nodeHeap[1].hasBeenRendered /\ ~nodeHeap[2].hasBeenRendered

\* A step that renders the example edge with both nodes not yet rendered:
\* alone it gives A[Start] --> B[End], in a new chart with direction TB it
\* gives the flowchart TB line and then that edge line
RenderExample ==
  (Len(connHeap) = 1 /\ connHeap[1] = ExampleEdge /\ Fresh /\ last'.threw = "") =>
    /\ last'.op = "Connection.render" => last'.text = "A[Start] --> B[End]"
    /\ (last'.op = "render" /\ last'.args = <<"TB">>)
         => last'.text = "flowchart TB\nA[Start] --> B[End]\n"

\* C4 (as the code has it): Connection.render() returns the text in the
\* format above with a line body of length 3 + depth, minus 1 if either end
\* has an arrowhead, plus 1 if that is even and the line is dotted; the
\* example edge renders as A[Start] --> B[End] under the line flowchart TB.
C4_RenderFormatAmended ==
  [][RenderFormat(TRUE) /\ RenderExample]_vars

\* C4 (as stated): the same with a line body of length 3 + depth, minus 1 if
\* either end has an arrowhead.
C4_RenderFormatClaimed ==
  [][RenderFormat(FALSE) /\ RenderExample]_vars

\* The example edge was rendered in a new chart with direction TB
C4_Witness ==
  /\ last.op = "render" /\ last.threw = "" /\ last.args = <<"TB">>
  /\ Len(connHeap) = 1 /\ connHeap[1] = ExampleEdge
  /\ last.text = "flowchart TB\nA[Start] --> B[End]\n"

\* A depth argument the claim accepts: omitted, or an integer >= 0
DepthAllowed(depth) == ~depth.def \/ (IsInteger(depth.h) /\ depth.h >= 0)

\* C5: new Connection(depth) succeeds exactly when depth is omitted or a
\* non-negative integer, and the edge made then has that depth (0 if omitted).
C5_DepthAccepted ==
  last.op = "new Connection" =>
    /\ last.threw = "" <=> DepthAllowed(last.depth)
    /\ last.threw = "" =>
         connHeap[1].depth = (IF last.depth.def THEN last.depth.h ELSE 0)

----------------------------------------------------------------------------
(* Properties of building a graph, checked under Spec.                     *)

\* The class an add-operation requires of its arguments
Required(op) ==
  CASE op = "addClass" -> "ClassDef"
    [] op = "addConnection" -> "Connection"
    [] op = "addDirective" -> "Directive"
    [] op = "addNode" -> "ChartNode"
    [] OTHER -> "FlowChart"

WrongKind(op, args) == \E i \in 1..Len(args) : ~InstanceOf(args[i], Required(op))

\* C6: addClass, addConnection, addDirective and addNode, called with an
\* argument list that holds an argument of the wrong kind, throw TypeError
\* and leave every collection of the graph as it was, also when arguments of
\* the right kind come first.
C6_WrongKindRejected ==
  [][(last'.op \in {"addClass", "addConnection", "addDirective", "addNode"}
        /\ WrongKind(last'.op, last'.args))
       => (last'.threw = "TypeError" /\ charts' = charts)]_vars

\* addNode(node 2, null) on a graph that holds node 1 alone
C6_Witness ==
  /\ last.op = "addNode" /\ last.args = <<N(2), NullVal>>
  /\ last.threw = "TypeError"
  /\ charts[G].nodes = <<1>>

\* C7: addSubgraph, called with an argument that is no FlowChart, throws
\* TypeError and leaves the graph's subgraphs and nodes as they were.
C7_NonChartRejected ==
  [][(last'.op = "addSubgraph" /\ WrongKind(last'.op, last'.args))
       => /\ last'.threw = "TypeError"
          /\ charts'[last'.chart].subgraphs = charts[last'.chart].subgraphs
          /\ charts'[last'.chart].nodes = charts[last'.chart].nodes]_vars

\* seq without the later occurrences of its elements
RECURSIVE FirstSeen(_)
FirstSeen(seq) ==
  IF Len(seq) = 0 THEN <<>>
  ELSE LET front == FirstSeen(SubSeq(seq, 1, Len(seq) - 1))
       IN IF seq[Len(seq)] \in Range(front) THEN front
          ELSE Append(front, seq[Len(seq)])

RECURSIVE Flatten(_)
Flatten(seqs) == IF Len(seqs) = 0 THEN <<>> ELSE seqs[1] \o Flatten(Tail(seqs))

\* The end nodes of the connections args, in argument order, from before to
EndNodes(args) ==
  Flatten([i \in 1..Len(args) |->
             <<connHeap[args[i].ref].from_node.node,
               connHeap[args[i].ref].to_node.node>>])

\* The nodes of the charts args, in argument order
ChartNodes(args) == Flatten([i \in 1..Len(args) |-> charts[args[i].ref].nodes])

Collections == {"classes", "connections", "directives", "nodes", "subgraphs"}

\* What a step that returns from an add-operation on chart g appends
AddedInOrder(g) ==
  LET old == charts[g]
      new == charts'[g]
      args == last'.args
  IN /\ last'.op = "addNode" => new.nodes = FirstSeen(old.nodes \o Refs(args))
     /\ last'.op = "addClass" => new.classes = FirstSeen(old.classes \o Refs(args))
     /\ last'.op = "addDirective" =>
          new.directives = FirstSeen(old.directives \o Refs(args))
     /\ last'.op = "addConnection" =>
          /\ new.connections = FirstSeen(old.connections \o Refs(args))
          /\ new.nodes = FirstSeen(old.nodes \o EndNodes(args))
     /\ (last'.op = "addSubgraph" /\ ~WrongKind("addSubgraph", args)) =>
          /\ new.subgraphs = FirstSeen(old.subgraphs \o args)
          /\ new.nodes = FirstSeen(old.nodes \o ChartNodes(args))

\* C8: no collection of a graph holds an entity twice, every call leaves
\* what a collection held in place and appends to it, and an add-operation
\* that returns appends its entities, and the nodes they bring, in the order
\* in which they were first seen.
C8_NoDuplicatesInOrder ==
  /\ [](\A g \in DOMAIN charts : \A f \in Collections : NoDuplicates(charts[g][f]))
  /\ [][/\ \A g \in DOMAIN charts : \A f \in Collections :
             IsPrefix(charts[g][f], charts'[g][f])
        /\ last'.threw = "" => AddedInOrder(last'.chart)]_vars

\* addNode(node 2, node 1) on a graph that held node 1: node 1 stays first
C8_Witness ==
  /\ last.op = "addNode" /\ last.args = <<N(2), N(1)>> /\ last.threw = ""
  /\ charts[G].nodes = <<1, 2>>

\* The node connect() makes of string s
ConnectNode(n, s) ==
  /\ n.id = Concat(slugify(s))
  /\ n.node_text = Concat(s)
  /\ n.node_class = Null
  /\ n.node_shape = None
  /\ ~n.hasBeenRendered

\* C9: connect(s1, s2) with two strings and no depth returns, having made
\* two nodes (id slugify(s), text s, no style, no shape) and one edge between
\* them (no arrowheads, no line style, no label, depth 0) and appended them
\* to the graph; on an empty graph connect("Home", "About") gives the node
\* ids home and about, in that order.
C9_ConnectStrings ==
  [][(last'.op = "connect" /\ ~last'.depth.def) =>
       LET g == last'.chart
           n1 == Len(nodeHeap) + 1
           n2 == Len(nodeHeap) + 2
           e == Len(connHeap) + 1
       IN /\ last'.threw = ""
          /\ Len(nodeHeap') = n2 /\ SubSeq(nodeHeap', 1, Len(nodeHeap)) = nodeHeap
          /\ Len(connHeap') = e /\ SubSeq(connHeap', 1, Len(connHeap)) = connHeap
          /\ ConnectNode(nodeHeap'[n1], last'.args[1])
          /\ ConnectNode(nodeHeap'[n2], last'.args[2])
          /\ connHeap'[e] =
               [depth |-> 0,
                from_node |-> [set |-> TRUE, node |-> n1, arrow |-> FALSE,
                               arrowStyle |-> "default"],
                to_node |-> [set |-> TRUE, node |-> n2, arrow |-> FALSE,
                             arrowStyle |-> "default"],
                link_class |-> None, link_style |-> None, link_text |-> None]
          /\ charts' = [charts EXCEPT
                          ![g].connections = Append(@, e),
                          ![g].nodes = @ \o <<n1, n2>>]
          /\ (charts[g].nodes = <<>> /\ last'.args = <<Home, About>>) =>
               /\ nodeHeap'[charts'[g].nodes[1]].id = "home"
               /\ nodeHeap'[charts'[g].nodes[2]].id = "about"
               /\ Len(charts'[g].nodes) = 2]_vars

\* connect("Home", "About") as the first call on the graph
C9_Witness ==
  /\ last.op = "connect" /\ last.args = <<Home, About>> /\ last.threw = ""
  /\ ~last.depth.def
  /\ Len(charts[G].nodes) = 2
  /\ nodeHeap[charts[G].nodes[1]].id = "home"
  /\ nodeHeap[charts[G].nodes[2]].id = "about"

\* The graph holds only what calls that returned have put there
BuiltBySuccesses(g) ==
  \A i \in 1..Len(charts[g].subgraphs) : charts[g].subgraphs[i].kind = "FlowChart"

\* C10: on a graph built by calls that returned, findNode(id) does not
\* throw: it returns the first node of the graph with that id, or reports
\* that there is none.
C10_FindNodeNeverThrows ==
  (last.op = "findNode" /\ BuiltBySuccesses(last.chart)) =>
    LET ns == charts[last.chart].nodes
        hits == {i \in 1..Len(ns) : ns[i] # Null /\ nodeHeap[ns[i]].id = last.args[1]}
    IN /\ last.threw = ""
       /\ last.found <=> hits # {}
       /\ last.found => \E i \in hits : last.node = ns[i] /\ \A j \in hits : i <= j

----------------------------------------------------------------------------
(* SpecStyle: the caller holds chart G, built as                           *)
(* new FlowChart().addNode(node 3).addConnection(e) with                   *)
(* e = new Connection().from(node 1).to(node 2, true), and a third chart X *)
(* that receives the copies FlowChart.from returns.  It makes at most      *)
(* MaxCalls calls that set styles, copy charts or nodes, or add to X.      *)

X == 3

Undefined == Val("undefined", 0)

InitStyle ==
  /\ nodeHeap = <<ChartNodeText(ChartNodeNew("A"), "Start"),
                  ChartNodeText(ChartNodeNew("B"), "End"),
                  [ChartNodeText(ChartNodeNew("A"), "Alt") EXCEPT
                     !.node_shape = Some("round-rect"), !.node_class = 1]>>
  /\ connHeap = <<ConnectionTo(ConnectionFrom(ConnectionNew(DepthOmitted).conn,
                                              1, FALSE, "default"),
                               2, TRUE, "default")>>
  /\ classHeap = <<[ClassDefNew("hot") EXCEPT !.style.fill = Some("red")],
                   [LinkDefNew EXCEPT !.style.stroke = Some("white")]>>
  /\ dirHeap = <<[DirectiveNew EXCEPT !.theme = Some("dark")]>>
  /\ charts = <<AddConnection(AddNode(FlowChartNew(None), <<N(3)>>).chart,
                              <<C(1)>>, connHeap).chart,
                FlowChartNew(None), FlowChartNew(None)>>
  /\ subgraphGen = 0
  /\ newId = 0
  /\ machine = NoMachine
  /\ input = <<>>
  /\ renders = <<>>
  /\ calls = 0
  /\ last = Call("new", G, "")

\* g.addStyle(v)
DoAddStyle(g, v) == Added("addStyle", g, <<v>>, AddStyle(charts[g], v))

\* A style call's effect on the state: r is what the call returned, with the
\* chart and the heap of style definitions after it
Styled(op, g, v, r) ==
  /\ charts' = [charts EXCEPT ![g] = r.chart]
  /\ classHeap' = r.heap
  /\ renders' = <<>>
  /\ last' = [Call(op, g, r.threw) EXCEPT !.args = <<v>>]
  /\ UNCHANGED <<nodeHeap, connHeap, dirHeap, newId, machine, input, subgraphGen>>

\* g.defaultClass(v)
DoDefaultClass(g, v) ==
  Styled("defaultClass", g, v, DefaultClass(charts[g], v, classHeap))

\* g.defaultLink(v)
DoDefaultLink(g, v) ==
  Styled("defaultLink", g, v, DefaultLink(charts[g], v, classHeap))

\* e.class(v)
DoConnectionClass(e, v) ==
  LET r == ConnectionClass(connHeap[e], v, classHeap)
  IN /\ e \in 1..Len(connHeap)
     /\ connHeap' = [connHeap EXCEPT ![e] = r.conn]
     /\ classHeap' = r.heap
     /\ renders' = <<>>
     /\ last' = [Call("Connection.class", G, r.threw) EXCEPT !.args = <<v>>]
     /\ UNCHANGED <<nodeHeap, dirHeap, newId, machine, input, charts, subgraphGen>>

\* s.<key>(value) on the style definition s the caller holds
DoStyleSet(s, key, value) ==
  /\ classHeap' = [classHeap EXCEPT ![s] = StyleSet(@, key, value)]
  /\ renders' = <<>>
  /\ last' = [Call("set", G, "") EXCEPT !.args = <<K(s)>>, !.text = key]
  /\ UNCHANGED <<nodeHeap, connHeap, dirHeap, newId, machine, input, charts, subgraphGen>>

\* X = FlowChart.from(v); X keeps its value when the call throws
DoFrom(v) ==
  LET r == FlowChartFrom(v, charts, connHeap, classHeap)
  IN /\ charts' = IF r.threw = "" THEN [charts EXCEPT ![X] = r.chart] ELSE charts
     /\ last' = [Call("FlowChart.from", X, r.threw) EXCEPT !.args = <<v>>]
     /\ UNCHANGED <<nodeHeap, connHeap, classHeap, dirHeap, newId, machine, input, subgraphGen,
                    renders>>

\* ChartNode.from(v, id), id omitted when it is None: the default id is taken
\* from the generator before the body runs.  The new node goes to the end of
\* the heap; the record keeps its handle and the id the call ran with.
DoChartNodeFrom(v, id) ==
  LET gen == IdGeneratorNext("node", newId)
      used == IF IsNull(id) THEN gen.value ELSE id[1]
      r == ChartNodeFrom(v, used, nodeHeap, classHeap)
  IN /\ newId' = IF IsNull(id) THEN gen.counter ELSE newId
     /\ nodeHeap' = IF r.threw = "" THEN Append(nodeHeap, r.node) ELSE nodeHeap
     /\ last' = [Call("ChartNode.from", G, r.threw) EXCEPT
                   !.args = <<v>>, !.text = used,
                   !.node = IF r.threw = "" THEN Len(nodeHeap) + 1 ELSE Null]
     /\ UNCHANGED <<connHeap, classHeap, dirHeap, charts, subgraphGen, renders,
                    machine, input>>

StyleArgs == {K(1), K(2), NullVal, N(1), O(1)}
LinkArgs == {K(2), K(1), NullVal, Undefined}
StyleValues == {None, Some("blue")}
FromArgs == {F(G), F(S), F(X), O(1), NullVal}
NodeFromArgs == {N(1), N(2), N(3), K(1), NullVal}
NodeFromIds == {None, Some("Z")}

NextStyle ==
  \/ \E v \in StyleArgs : Counted(DoAddStyle(G, v))
  \/ \E v \in StyleArgs : Counted(DoDefaultClass(G, v))
  \/ \E v \in StyleArgs : Counted(DoDefaultLink(G, v))
  \/ \E v \in LinkArgs : Counted(DoConnectionClass(1, v))
  \/ \E s \in {1, 2}, key \in {"fill", "strokeDash"}, value \in StyleValues :
       Counted(DoStyleSet(s, key, value))
  \/ \E v \in FromArgs : Counted(DoFrom(v))
  \/ \E args \in {<<N(3)>>, <<N(2), N(1)>>} : Counted(DoAddNode(X, args))
  \/ \E v \in NodeFromArgs, id \in NodeFromIds : Counted(DoChartNodeFrom(v, id))

SpecStyle == InitStyle /\ [][NextStyle]_vars

----------------------------------------------------------------------------
(* Claims about copies and style setters, stated over SpecStyle *)

\* The five collections of a chart
Collected(g) == <<g.classes, g.connections, g.directives, g.nodes, g.subgraphs>>

\* C11: every call FlowChart.from(g) on a FlowChart g returns, and the new
\* chart's class, edge, directive, node and subgraph collections hold g's
\* entities in g's order; add-operations on the copy leave g's collections
\* as they were.
C11_FromCopiesCollections ==
  [][/\ (last'.op = "FlowChart.from" /\ last'.args[1].kind = "FlowChart") =>
          /\ last'.threw = ""
          /\ Collected(charts'[X]) = Collected(charts[last'.args[1].ref])
     /\ (last'.op = "addNode" /\ last'.chart = X) =>
          Collected(charts'[G]) = Collected(charts[G])]_vars

\* C12: defaultClass(v) and addStyle(v) with a v that is no style definition
\* throw TypeError and leave the chart's default node style and container
\* style as they were.
C12_NonStyleRejected ==
  [][(/\ last'.op \in {"defaultClass", "addStyle"}
      /\ ~InstanceOf(last'.args[1], "ClassDef")) =>
       /\ last'.threw = "TypeError"
       /\ charts'[G].default_class = charts[G].default_class
       /\ charts'[G].style = charts[G].style]_vars

\* The style definition a nullable handle h refers to
Held(h) == IF IsNull(h) THEN None ELSE Some(classHeap[h[1]])

\* The styles the edge and chart G hold: the edge's own style, G's default
\* edge style and G's default node style
HeldStyles ==
  <<Held(connHeap[1].link_class), Held(charts[G].default_link),
    Held(charts[G].default_class)>>

\* The text G.render() gives for them (G has no registered style here)
HeldText == StyleSection(charts[G], connHeap, nodeHeap, classHeap)

\* C15: a change of a property of a style definition s the caller holds
\* leaves the styles that e.class(s), defaultLink(s) and defaultClass(s)
\* stored, and the text the graph renders for them, unchanged.
C15_CopiesUnaffected ==
  [][last'.op = "set" => HeldStyles' = HeldStyles /\ HeldText' = HeldText]_vars

\* e.class(s) and defaultClass(s) were called with the LinkDef s, and s was
\* changed afterwards: both stored styles differ from s now
C15_Witness ==
  /\ last.op = "set" /\ last.args[1] = K(2)
  /\ ~IsNull(connHeap[1].link_class) /\ ~IsNull(charts[G].default_class)
  /\ HeldStyles[1][1].style # classHeap[2].style
  /\ HeldStyles[3][1].style # classHeap[2].style

\* The node ChartNode.from has to give for node n and id
CopyOf(n, id) ==
  [ChartNodeNew(id) EXCEPT !.node_text = n.node_text, !.node_class = n.node_class,
                           !.node_shape = n.node_shape, !.hasBeenRendered = FALSE]

\* C16: ChartNode.from(n, id) returns for every node n, with or without a
\* style and a shape, a new node that has the supplied or a newly generated
\* id, n's text, n's style reference and n's shape, and is not yet emitted.
C16_NodeFromCopies ==
  (last.op = "ChartNode.from" /\ last.args[1].kind = "ChartNode") =>
    /\ last.threw = ""
    /\ last.node = Len(nodeHeap)
    /\ nodeHeap[last.node] = CopyOf(nodeHeap[last.args[1].ref], last.text)

----------------------------------------------------------------------------
(* SpecDef: the caller holds the ClassDef "hot" (1) and a LinkDef (2), sets *)
(* and clears their five properties in any order, and renders them: each   *)
(* by its own render(), and the ClassDef also as the container style of    *)
(* the chart S = new FlowChart("box").addStyle(hot) by S.subRender().      *)

InitDef ==
  /\ InitObjects
  /\ charts = <<FlowChartNew(None), AddStyle(FlowChartNew(Some("box")), K(1)).chart>>

\* The value the caller gives each property
StyleValue ==
  [color |-> "blue", fill |-> "red", stroke |-> "white", strokeWidth |-> "2px",
   strokeDash |-> "5 5"]

\* s.render()
DoStyleRender(s) ==
  /\ last' = [Call(IF IsLinkDef(classHeap[s]) THEN "LinkDef.render"
                   ELSE "ClassDef.render", G, "")
                EXCEPT !.args = <<K(s)>>, !.text = StyleRender(classHeap[s]),
                       !.styles = StyleTokens(classHeap[s])]
  /\ UNCHANGED <<nodeHeap, connHeap, classHeap, dirHeap, newId, machine, input, charts,
                 subgraphGen, renders, calls>>

\* S.subRender()
DoSubRender ==
  LET r == SubRender(charts[S], connHeap, nodeHeap, classHeap, subgraphGen)
  IN /\ nodeHeap' = r.heap
     /\ subgraphGen' = r.gen
     /\ last' = [Call("subRender", S, r.threw) EXCEPT
                   !.args = <<K(charts[S].style)>>, !.text = r.parts[1],
                   !.styles = SubgraphTokens(classHeap[charts[S].style].style)]
     /\ UNCHANGED <<connHeap, classHeap, dirHeap, newId, machine, input, charts, renders, calls>>

NextDef ==
  \/ \E s \in {1, 2}, key \in Range(StyleKeys) :
       \E value \in {None, Some(StyleValue[key])} : Kept(DoStyleSet(s, key, value))
  \/ \E s \in {1, 2} : DoStyleRender(s)
  \/ DoSubRender

SpecDef == InitDef /\ [][NextDef]_vars

----------------------------------------------------------------------------
(* Claims about the rendering of style definitions, stated over SpecDef *)

EndsWith(str, suffix) ==
  Len(str) >= Len(suffix)
    /\ SubSeq(str, Len(str) - Len(suffix) + 1, Len(str)) = suffix

StartsWith(str, prefix) ==
  Len(str) >= Len(prefix) /\ SubSeq(str, 1, Len(prefix)) = prefix

\* The properties of the style definition just rendered that are not null
NonNull == {k \in Range(StyleKeys) : ~IsNull(classHeap[last.args[1].ref].style[k])}

\* The tokens rendered for property k: those that carry k's value
TokensOf(k) ==
  {i \in 1..Len(last.styles) :
     EndsWith(last.styles[i], ":" \o classHeap[last.args[1].ref].style[k][1])}

\* C13: ClassDef.render() and LinkDef.render() put into the declaration one
\* key:value token for each property that is not null and no other token; a
\* style with only fill set renders the one token fill:<value>.
C13_TokensForNonNull ==
  last.op \in {"ClassDef.render", "LinkDef.render"} =>
    /\ Len(last.styles) = Cardinality(NonNull)
    /\ \A k \in NonNull : Cardinality(TokensOf(k)) = 1
    /\ EndsWith(last.text,
                " " \o Join(last.styles, ",")
                  \o (IF last.op = "ClassDef.render" THEN "\n" ELSE ""))
    /\ NonNull = {"fill"} => last.styles = <<"fill:" \o StyleValue.fill>>

\* Both kinds of definition were rendered with some properties set and some
\* null: here the ClassDef, with three of the five set
C13_Witness ==
  /\ last.op = "ClassDef.render"
  /\ NonNull = {"color", "stroke", "strokeDash"}
  /\ Len(last.styles) = 3

\* The name the output format has for property k
OutputName(k) ==
  IF k = "strokeWidth" THEN "stroke-width"
  ELSE IF k = "strokeDash" THEN "stroke-dasharray"
  ELSE k

\* C14: every style rendering (node-style declaration, edge-style
\* declaration, container style line of a subgraph) names the stroke width
\* stroke-width and the stroke dash stroke-dasharray, and keeps the names
\* color, fill and stroke.
C14_OutputSpelling ==
  last.op \in {"ClassDef.render", "LinkDef.render", "subRender"} =>
    \A k \in NonNull :
      \E i \in 1..Len(last.styles) :
        last.styles[i] = OutputName(k) \o ":" \o StyleValue[k]

----------------------------------------------------------------------------
(* SpecOrder: the caller holds the edges e1 = new Connection().from(node 1) *)
(* .to(node 2, true) and e2, the same from node 2 to node 1, and the chart  *)
(* G = new FlowChart().addDirective(d).addSubgraph(S).  It adds the edges  *)
(* and a node to G, registers styles, sets the default node style, the     *)
(* default edge style and the style of e1 (each once), in any order, and   *)
(* renders G after any of these calls.                                     *)

InitOrder ==
  /\ nodeHeap = <<ChartNodeText(ChartNodeNew("A"), "Start"),
                  ChartNodeText(ChartNodeNew("B"), "End"),
                  [ChartNodeText(ChartNodeNew("A"), "Alt") EXCEPT
                     !.node_shape = Some("round-rect"), !.node_class = 1]>>
  /\ connHeap = [e \in 1..2 |->
                   ConnectionTo(ConnectionFrom(ConnectionNew(DepthOmitted).conn,
                                               e, FALSE, "default"),
                                3 - e, TRUE, "default")]
  /\ classHeap = <<[ClassDefNew("hot") EXCEPT !.style.fill = Some("red")],
                   [LinkDefNew EXCEPT !.style.stroke = Some("white")]>>
  /\ dirHeap = <<[DirectiveNew EXCEPT !.theme = Some("dark")]>>
  /\ subgraphGen = 0
  /\ newId = 0
  /\ machine = NoMachine
  /\ input = <<>>
  /\ renders = <<>>
  /\ calls = 0
  /\ last = Call("new", G, "")
  /\ charts = <<AddSubgraph(AddDirective(FlowChartNew(None), <<D(1)>>).chart,
                            <<F(S)>>,
                            <<FlowChartNew(None), FlowChartNew(None)>>).chart,
                FlowChartNew(None)>>

NextOrder ==
  \/ \E e \in 1..2 : Kept(DoAddConnection(G, <<C(e)>>))
  \/ Kept(DoAddNode(G, <<N(3)>>))
  \/ \E args \in {<<K(1)>>, <<K(2), K(1)>>} : Kept(DoAddClass(G, args))
  \/ IsNull(charts[G].default_class) /\ Kept(DoDefaultClass(G, K(1)))
  \/ IsNull(charts[G].default_link) /\ Kept(DoDefaultLink(G, K(2)))
  \/ IsNull(connHeap[1].link_class) /\ Kept(DoConnectionClass(1, K(2)))
  \/ renders = <<>> /\ DoRender

SpecOrder == InitOrder /\ [][NextOrder]_vars

----------------------------------------------------------------------------
(* Claim about the order of the sections, stated over SpecOrder *)

\* What rendering G's edges, then its nodes not yet emitted, then its
\* subgraphs gives, from the state a render() call starts in
EdgeLines ==
  RenderConnections(charts[G].connections, connHeap, "", Start(nodeHeap, subgraphGen))
NodeLines == RenderUnrendered(charts[G].nodes, Start(EdgeLines.heap, EdgeLines.gen))
SubgraphBlocks ==
  RenderSubgraphs(charts[G].subgraphs, charts, connHeap, classHeap,
                  Start(NodeLines.heap, NodeLines.gen))

\* The ids of G's nodes that carry style c, in G's order
Carriers(c) ==
  LET ns == SelectSeq(charts[G].nodes, LAMBDA n : nodeHeap[n].node_class = c)
  IN [i \in 1..Len(ns) |-> nodeHeap[ns[i]].id]

\* G's nodes that are an end of none of G's edges
OffEdge ==
  SelectSeq(charts[G].nodes,
            LAMBDA n : \A i \in 1..Len(charts[G].connections) :
                         /\ connHeap[charts[G].connections[i]].from_node.node # n
                         /\ connHeap[charts[G].connections[i]].to_node.node # n)

\* The declaration of a style the chart or an edge may hold
Declared(h) == IF IsNull(h) THEN "" ELSE StyleRender(classHeap[h[1]])

\* The nine sections of the text, in the order claimed
Sections ==
  LET g == charts[G]
  IN <<Join([i \in 1..Len(g.directives) |-> DirectiveRender(dirHeap[g.directives[i]])],
            "\n"),
       "flowchart " \o g.chart_direction \o "\n",
       Join(EdgeLines.parts, "\n") \o "\n",
       Join(NodeLines.parts, "\n"),
       Join(SubgraphBlocks.parts, "\n"),
       Declared(g.default_class),
       Concat([i \in 1..Len(g.classes) |->
                 StyleRender(classHeap[g.classes[i]]) \o "class "
                   \o Join(Carriers(g.classes[i]), ",") \o " "
                   \o classHeap[g.classes[i]].name \o "\n"]),
       Declared(g.default_link),
       Concat([i \in 1..Len(g.connections) |->
                 Declared(connHeap[g.connections[i]].link_class)])>>

\* C17: the text render() returns is made of these sections in this order:
\* the directives, the flowchart line, the edges in insertion order, the
\* nodes no edge has emitted, the subgraph blocks, the default node style,
\* each registered style followed by its class line that lists the graph's
\* nodes carrying it, the default edge style, and the styles of the edges.
C17_SectionOrder ==
  [][(last'.op = "render" /\ last'.threw = "") =>
       /\ last'.text = Concat(Sections)
       /\ Len(EdgeLines.parts) = Len(charts[G].connections)
       /\ Len(NodeLines.parts) = Len(OffEdge)
       /\ Len(SubgraphBlocks.parts) = Len(charts[G].subgraphs)]_vars

\* A render of G in which none of the nine sections is empty: two edges, a
\* node of its own, two registered styles, one of them carried by that node
C17_Witness ==
  /\ last.op = "render" /\ last.threw = ""
  /\ \A i \in 1..9 : Sections[i] # ""
  /\ Len(charts[G].connections) = 2 /\ Len(charts[G].classes) = 2
  /\ Carriers(1) = <<"A">> /\ OffEdge = <<3>>
  /\ ~IsNull(charts[G].default_class) /\ ~IsNull(charts[G].default_link)
  /\ ~IsNull(connHeap[1].link_class)

----------------------------------------------------------------------------
(* SpecAdapter: the adapter is called once, with the default style table   *)
(* and a machine of one or two states.  The machine's tags are absent, an  *)
(* empty list, a string or a list of strings; the first state may carry a  *)
(* type and a tags value, inside or outside the table, and a transition to *)
(* itself, to the second state or to a state that does not exist.          *)

\* baseClass = new ClassDef("base").fill("black").color("white")
BaseClass ==
  StyleSet(StyleSet(ClassDefNew("base"), "fill", Some("black")), "color", Some("white"))

\* The ClassDef objects of the style table, in the order the module makes
\* them: ClassDef.from(baseClass) takes its names from the class generator
OptionClasses ==
  <<StyleSet(ClassDefFrom(BaseClass, IdGeneratorNext("class", 0).value),
             "stroke", Some("green")),
    StyleSet(ClassDefFrom(BaseClass, IdGeneratorNext("class", 1).value),
             "stroke", Some("blue")),
    StyleSet(ClassDefFrom(BaseClass, IdGeneratorNext("class", 2).value),
             "stroke", Some("yellow")),
    StyleSet(ClassDefNew("reaction"), "fill", Some("red")),
    StyleSet(ClassDefFrom(BaseClass, IdGeneratorNext("class", 3).value),
             "stroke", Some("red"))>>

\* options: the style table, its classes by handle
Options ==
  [k \in {"Introduction", "Core", "Alternate", "Antagonist Reaction", "final"} |->
     CASE k = "Introduction" -> [class |-> 1, shape |-> "pill"]
       [] k = "Core" -> [class |-> 2, shape |-> "default"]
       [] k = "Alternate" -> [class |-> 3, shape |-> "hex"]
       [] k = "Antagonist Reaction" -> [class |-> 4, shape |-> "trapezoid"]
       [] k = "final" -> [class |-> 5, shape |-> "pill"]]

Chars(str) == [i \in 1..Len(str) |-> SubSeq(str, i, i)]

\* Values of machine.tags
TagInputs ==
  {TagUndefined, TagArray(<<>>), TagString(<<>>), TagString(Chars("link:dotted")),
   TagArray(<<TagString(Chars("link:dotted"))>>),
   TagArray(<<TagString(Chars("curve:basis")), TagString(Chars("blink"))>>),
   TagArray(<<TagString(Chars("var:a=b:c=d")), TagString(Chars("note"))>>)}

StateKeys == <<Chars("S1"), Chars("S 2"), Chars("S9")>>

\* Transition maps of the first state: none, one event, or two events
OnInputs ==
  {None} \cup
  {Some(<<[event |-> "go", target |-> StateKeys[t], description |-> d]>>) :
     t \in 1..3, d \in {None, Some("yes")}} \cup
  {Some(<<[event |-> "go", target |-> StateKeys[2], description |-> None],
          [event |-> "stay", target |-> StateKeys[1], description |-> Some("no")]>>)}

\* States with key S1
FirstStates ==
  {[key |-> StateKeys[1], type |-> type, tags |-> tags, description |-> None,
    on |-> on] :
     type \in {None, Some("final"), Some("atomic")},
     tags \in {None, Some("Core"), Some("draft")},
     on \in OnInputs}

\* The state with key "S 2"
SecondState ==
  [key |-> StateKeys[2], type |-> None, tags |-> Some("Core"),
   description |-> Some("Two"), on |-> None]

Machines ==
  {[id |-> "M", tags |-> tags, states |-> states] :
     tags \in TagInputs,
     states \in {<<s>> : s \in FirstStates} \cup {<<s, SecondState>> : s \in FirstStates}}

InitAdapter ==
  /\ nodeHeap = <<>>
  /\ connHeap = <<>>
  /\ classHeap = OptionClasses
  /\ dirHeap = <<>>
  /\ charts = <<FlowChartNew(None), FlowChartNew(None)>>
  /\ subgraphGen = 0
  /\ newId = 0
  /\ renders = <<>>
  /\ machine \in Machines
  /\ input = <<>>
  /\ calls = 0
  /\ last = Call("new", G, "")

\* text = adapter(machine, options): line 48 rewrites machine.tags; the
\* chart and the objects the adapter made are kept when it returns
DoProcess ==
  LET m == [machine EXCEPT !.tags = NormalizeTags(@)]
      r == processStately(m, Options, charts, nodeHeap, connHeap, classHeap,
                          dirHeap, subgraphGen)
  IN /\ calls = 0
     /\ calls' = 1
     /\ machine' = m
     /\ last' = [Call("adapter", G, r.threw) EXCEPT !.text = r.text]
     /\ IF r.threw = ""
        THEN /\ charts' = [charts EXCEPT ![G] = r.chart]
             /\ nodeHeap' = r.nh
             /\ connHeap' = r.ch
             /\ classHeap' = r.clh
             /\ dirHeap' = r.dh
             /\ subgraphGen' = r.gen
        ELSE UNCHANGED <<charts, nodeHeap, connHeap, classHeap, dirHeap, subgraphGen>>
     /\ UNCHANGED <<newId, input, renders>>

NextAdapter == DoProcess

SpecAdapter == InitAdapter /\ [][NextAdapter]_vars

----------------------------------------------------------------------------
(* Claims about the adapter, stated over SpecAdapter.  A step of the       *)
(* adapter is read with the machine as it was handed over (unprimed) and   *)
(* the outcome of the call (primed).                                       *)

\* The machine's tags are a non-empty list of strings
TagsListed(m) ==
  /\ m.tags.kind = "array" /\ Len(m.tags.items) > 0
  /\ \A i \in 1..Len(m.tags.items) : m.tags.items[i].kind = "string"

\* Every transition of the machine targets one of its states
TargetsExist(m) ==
  \A i \in 1..Len(m.states) :
    ~IsNull(m.states[i].on) =>
      \A j \in 1..Len(m.states[i].on[1]) :
        \E k \in 1..Len(m.states) : m.states[k].key = m.states[i].on[1][j].target

\* The entries of the style table that a state's type or tags value names
EntriesOf(st) ==
  {Options[k] : k \in {v[1] : v \in {w \in {st.type, st.tags} : ~IsNull(w)}}
                        \cap DOMAIN Options}

\* No state of the machine names an entry of the style table
Unstyled(m) == \A i \in 1..Len(m.states) : EntriesOf(m.states[i]) = {}

\* C18: for a machine with an id, the single state S1 without transitions
\* and no tags (absent or an empty list), the adapter returns a text that
\* starts with the title block naming the id, for a graph of exactly one
\* node and no edge.
C18_SingleStateNoTags ==
  [][(/\ last'.op = "adapter"
      /\ machine.tags \in {TagUndefined, TagArray(<<>>)}
      /\ Len(machine.states) = 1 /\ IsNull(machine.states[1].on)
      /\ Unstyled(machine)) =>
       /\ last'.threw = ""
       /\ StartsWith(last'.text, "---\ntitle: " \o machine.id \o "\n---\n")
       /\ Len(charts'[G].nodes) = 1
       /\ Len(charts'[G].connections) = 0]_vars

\* C19: when a transition targets a state name that is no key of states,
\* the adapter does not fail: it returns the text, and the edge made for
\* the transition has no node at its to end.
C19_MissingTargetTolerated ==
  [][(/\ last'.op = "adapter"
      /\ TagsListed(machine) /\ Unstyled(machine)
      /\ ~TargetsExist(machine)) =>
       /\ last'.threw = ""
       /\ \E i \in 1..Len(charts'[G].connections) :
            connHeap'[charts'[G].connections[i]].to_node.node = Null]_vars

\* C20: every state whose type or tags value is a key of the style table,
\* also when only one of the two is, has a node with that entry's style and
\* shape, and the style is registered on the graph once; a state none of
\* whose values is a key has a node without style and shape.
C20_StyleFromTable ==
  [][(/\ last'.op = "adapter"
      /\ TagsListed(machine) /\ TargetsExist(machine)) =>
       /\ last'.threw = ""
       /\ \A i \in 1..Len(machine.states) :
            IF EntriesOf(machine.states[i]) = {}
            THEN /\ nodeHeap'[i].node_class = Null
                 /\ IsNull(nodeHeap'[i].node_shape)
            ELSE \E entry \in EntriesOf(machine.states[i]) :
                   /\ nodeHeap'[i].node_class = entry.class
                   /\ nodeHeap'[i].node_shape = Some(entry.shape)
                   /\ Len(SelectSeq(charts'[G].classes,
                                    LAMBDA c : c = entry.class)) = 1]_vars

\* The (state, event) pairs of the machine, in the order of the states and
\* of each state's events
Transitions(m) ==
  Flatten([i \in 1..Len(m.states) |->
             IF IsNull(m.states[i].on) THEN <<>>
             ELSE [j \in 1..Len(m.states[i].on[1]) |->
                     [from |-> i, link |-> m.states[i].on[1][j]]]])

\* The state's key with each white-space character replaced by _
Underscored(key) ==
  Concat([i \in 1..Len(key) |-> IF key[i] = " " THEN "_" ELSE key[i]])

\* The line style named by the machine's link:<style> tag, if it has one
LinkStyleOf(m) ==
  LET hits == SelectSeq(m.tags.items,
                        LAMBDA t : StartsWith(t.chars, Chars("link:")))
  IN IF Len(hits) = 0 THEN None
     ELSE Some(Concat(SubSeq(hits[1].chars, 6, Len(hits[1].chars))))

\* C28: for a machine whose tags are a non-empty list of strings and whose
\* transitions all target existing states, the adapter's graph has one node
\* per state (id: the key with white space replaced by _, text: the
\* description or else the key) and one edge per (state, event) pair, from
\* the state's node to the target's node, with an arrowhead at the target
\* only, the line style of the link:<style> tag and the transition's
\* description as label.
C28_NodePerStateEdgePerEvent ==
  [][(/\ last'.op = "adapter"
      /\ TagsListed(machine) /\ TargetsExist(machine)) =>
       /\ last'.threw = ""
       /\ Len(charts'[G].nodes) = Len(machine.states)
       /\ \A i \in 1..Len(machine.states) :
            /\ nodeHeap'[charts'[G].nodes[i]].id = Underscored(machine.states[i].key)
            /\ nodeHeap'[charts'[G].nodes[i]].node_text =
                 (IF IsNull(machine.states[i].description)
                  THEN Concat(machine.states[i].key)
                  ELSE machine.states[i].description[1])
       /\ Len(charts'[G].connections) = Len(Transitions(machine))
       /\ \A k \in 1..Len(Transitions(machine)) :
            LET c == connHeap'[charts'[G].connections[k]]
                t == Transitions(machine)[k]
            IN /\ c.from_node.node = charts'[G].nodes[t.from]
               /\ ~c.from_node.arrow
               /\ \E j \in 1..Len(machine.states) :
                    /\ machine.states[j].key = t.link.target
                    /\ c.to_node.node = charts'[G].nodes[j]
               /\ c.to_node.arrow
               /\ c.link_style = LinkStyleOf(machine)
               /\ c.link_text = t.link.description]_vars

----------------------------------------------------------------------------
(* slugify on its own: the caller holds a string of at most MaxLen         *)
(* characters over letters, an accented letter, a digit, a space, a        *)
(* hyphen, an underscore and a punctuation mark, slugifies it and then     *)
(* slugifies the result.  renders holds the strings returned, each as its  *)
(* sequence of characters.                                                 *)

MaxLen == 3

Alphabet == {"a", "B", "E^", "1", " ", "-", "_", "!"}

RECURSIVE Strings(_)
Strings(n) ==
  IF n = 0 THEN {<<>>}
  ELSE Strings(n - 1) \cup
       {Append(s, c) : s \in {t \in Strings(n - 1) : Len(t) = n - 1}, c \in Alphabet}

InitSlug ==
  /\ nodeHeap = <<>>
  /\ connHeap = <<>>
  /\ classHeap = <<>>
  /\ dirHeap = <<>>
  /\ charts = <<>>
  /\ subgraphGen = 0
  /\ newId = 0
  /\ renders = <<>>
  /\ machine = NoMachine
  /\ input \in Strings(MaxLen)
  /\ calls = 0
  /\ last = Call("new", Null, "")

\* slug = slugify(input), or slugify(slug) of the slug returned before
DoSlugify ==
  /\ Len(renders) < 2
  /\ renders' = Append(renders, slugify(IF renders = <<>> THEN input
                                        ELSE renders[Len(renders)]))
  /\ calls' = calls + 1
  /\ last' = Call("slugify", Null, "")
  /\ UNCHANGED <<nodeHeap, connHeap, classHeap, dirHeap, newId, machine, input,
                 charts, subgraphGen>>

NextSlug == DoSlugify

SpecSlug == InitSlug /\ [][NextSlug]_vars

\* C21: slugify is idempotent: slugifying the slug of a string returns that
\* slug unchanged
C21_SlugifyIdempotent ==
  Len(renders) = 2 => renders[2] = renders[1]

\* A string with an accent, a capital, white space and punctuation has been
\* slugified twice; its slug differs from it
C21_Witness ==
  /\ Len(renders) = 2
  /\ input = <<"E^", " ", "B">>
  /\ renders[1] = <<"e", "-", "b">>

\* C22: a slug has no leading hyphen, no trailing hyphen and no two
\* adjacent hyphens
C22_NoEdgeOrDoubleHyphen ==
  \A i \in 1..Len(renders) :
    /\ Len(renders[i]) > 0 => renders[i][1] # "-" /\ renders[i][Len(renders[i])] # "-"
    /\ \A j \in 1..(Len(renders[i]) - 1) :
         ~(renders[i][j] = "-" /\ renders[i][j + 1] = "-")

----------------------------------------------------------------------------
(* Properties of the emitted flags and of nested charts.                   *)

\* C23: when render() has returned, every node the pass rendered (a node of
\* the graph, of a subgraph, or an end of one of their edges) has its
\* emitted flag cleared.  Checked under SpecRender.
C23_FlagsClearedAfterRender ==
  (last.op = "render" /\ last.threw = "") =>
    \A i \in 1..Len(last.emits) : ~nodeHeap[last.emits[i].node].hasBeenRendered

----------------------------------------------------------------------------
(* SpecNest: the caller holds the chart G and two named charts S ("inner") *)
(* and T ("deep"), adds nodes 1 and 2 and an edge between them to any of   *)
(* the three, makes S and T subgraphs of G and T a subgraph of S, and      *)
(* renders G.                                                              *)

T == 3

InitNest ==
  /\ InitObjects
  /\ charts = <<FlowChartNew(None), FlowChartNew(Some("inner")),
                FlowChartNew(Some("deep"))>>

NextNest ==
  \/ \E g \in {G, S, T}, n \in {1, 2} : Kept(DoAddNode(g, <<N(n)>>))
  \/ Kept(NewEdge(2))
  \/ \E g \in {S, T} : Len(connHeap) >= 1 /\ Kept(DoAddConnection(g, <<C(1)>>))
  \/ \E s \in {S, T} : Kept(DoAddSubgraph(G, <<F(s)>>))
  \/ Kept(DoAddSubgraph(S, <<F(T)>>))
  \/ DoRender

SpecNest == InitNest /\ [][NextNest]_vars

\* The nodes with text that G holds together with at least one of its
\* subgraphs
SharedNodes ==
  {n \in Range(charts[G].nodes) :
     /\ n # Null /\ nodeHeap[n].node_text # ""
     /\ \E i \in 1..Len(charts[G].subgraphs) :
          Includes(charts[charts[G].subgraphs[i].ref].nodes, n)}

\* C24: in one render() pass of G, a node with text that G shares with one
\* or more of its subgraphs is written with its shape-wrapped text at most
\* once; every other occurrence is its bare id.
C24_SharedNodeShapedOnce ==
  (last.op = "render" /\ last.threw = "") =>
    \A n \in SharedNodes :
      Cardinality({i \in Occurrences(n) : last.emits[i].shaped}) <= 1

\* The positions at which sub occurs in str
Positions(str, sub) ==
  {i \in 1..(Len(str) - Len(sub) + 1) : SubSeq(str, i, i + Len(sub) - 1) = sub}

\* C25: when S is a subgraph of G and T a subgraph of S, the text G.render()
\* returns holds the block of T (from its subgraph line to its end line)
\* inside the block of S.
C25_NestedBlockRendered ==
  (/\ last.op = "render" /\ last.threw = ""
   /\ Includes(charts[G].subgraphs, F(S))
   /\ Includes(charts[S].subgraphs, F(T))) =>
    \E i \in Positions(last.text, "subgraph inner\n"),
       j \in Positions(last.text, "subgraph deep\n"),
       k \in Positions(last.text, "end\n"),
       l \in Positions(last.text, "end\n") : i < j /\ j < k /\ k < l

----------------------------------------------------------------------------
(* Node ids within a graph, checked under Spec.                            *)

\* C26: after any sequence of addNode, addConnection, addSubgraph and
\* connect calls, no two distinct nodes of a graph's node collection have
\* the same id.
C26_NodeIdsUnique ==
  \A g \in 1..Len(charts) :
    \A i, j \in 1..Len(charts[g].nodes) :
      (/\ i # j
       /\ charts[g].nodes[i] # Null /\ charts[g].nodes[j] # Null
       /\ charts[g].nodes[i] # charts[g].nodes[j]) =>
        nodeHeap[charts[g].nodes[i]].id # nodeHeap[charts[g].nodes[j]].id

----------------------------------------------------------------------------
(* SpecArrow: the caller constructs one edge of default depth, sets its    *)
(* from end (node 1) and its to end (node 2) with or without an arrow of   *)
(* any style name, sets its line style, and renders it.                    *)

ArrowArgs == Arrows \cup {<<TRUE, "cross">>}

NextArrow ==
  \/ ENew(DepthOmitted)
  \/ \E a \in ArrowArgs : EFrom(a[1], a[2])
  \/ \E a \in ArrowArgs : ETo(2, a[1], a[2])
  \/ \E style \in LineStyles : EStyle(style)
  \/ ERender

SpecArrow == Init /\ [][NextArrow]_vars

\* A step in which e.render() returns text that has, for an end with an
\* arrow whose style is one of styles, the arrowhead of that style next to
\* the line body: o for "round", x for the style named cross, and for
\* "default" < on the from end and > on the to end
ArrowheadsOf(styles, cross) ==
  (last'.op = "Connection.render" /\ last'.threw = "") =>
    LET c == connHeap[1]
        r1 == ChartNodeRender(nodeHeap[c.from_node.node])
        r2 == ChartNodeRender(
                WithNode(nodeHeap, c.from_node.node, r1.node)[c.to_node.node])
        head(end, default) ==
          CASE end.arrowStyle = "round" -> "o"
            [] end.arrowStyle = cross -> "x"
            [] OTHER -> default
    IN /\ (c.from_node.arrow /\ c.from_node.arrowStyle \in styles) =>
            StartsWith(last'.text, r1.text \o head(c.from_node, "<") \o last'.line)
       /\ (c.to_node.arrow /\ c.to_node.arrowStyle \in styles) =>
            EndsWith(last'.text,
                     last'.line \o head(c.to_node, ">") \o " " \o r2.text)

----------------------------------------------------------------------------
(* SpecDirective: the caller holds one new Directive, calls curve and      *)
(* flowchart on it with valid and invalid arguments, and renders it.       *)
(* renders holds the texts render() returned since the last call that      *)
(* returned without an exception.                                          *)

InitDirective ==
  /\ nodeHeap = <<>>
  /\ connHeap = <<>>
  /\ classHeap = <<>>
  /\ dirHeap = <<DirectiveNew>>
  /\ charts = <<>>
  /\ subgraphGen = 0
  /\ newId = 0
  /\ machine = NoMachine
  /\ input = <<>>
  /\ renders = <<>>
  /\ calls = 0
  /\ last = Call("new Directive", Null, "")

\* A call on the directive: r is what it returned
DirectiveCalled(op, v, r) ==
  /\ dirHeap' = <<r.dir>>
  /\ renders' = IF r.threw = "" THEN <<>> ELSE renders
  /\ last' = [Call(op, Null, r.threw) EXCEPT !.args = <<v>>]
  /\ UNCHANGED <<nodeHeap, connHeap, classHeap, newId, machine, input, charts,
                 subgraphGen, calls>>

\* d.curve(v)
DoCurve(v) == DirectiveCalled("curve", v, DirectiveCurve(dirHeap[1], v))

\* d.flowchart(v): v is undefined, a value that is no object, or an object
DoFlowchart(v) ==
  DirectiveCalled("flowchart", v,
    CASE v.kind = "undefined" ->
           [threw |-> "", dir |-> [dirHeap[1] EXCEPT !.flowchart = None]]
      [] v.kind = "string" -> [threw |-> "TypeError", dir |-> dirHeap[1]]
      [] OTHER -> DirectiveFlowchart(dirHeap[1], v.obj))

\* text = d.render()
DoDirectiveRender ==
  /\ Len(renders) < MaxRenders
  /\ renders' = Append(renders, DirectiveRender(dirHeap[1]))
  /\ last' = [Call("Directive.render", Null, "") EXCEPT
                !.text = DirectiveRender(dirHeap[1])]
  /\ UNCHANGED <<nodeHeap, connHeap, classHeap, dirHeap, newId, machine, input,
                 charts, subgraphGen, calls>>

CurveArgs ==
  {[kind |-> "undefined", name |-> ""]}
    \cup {[kind |-> "string", name |-> n] : n \in {"basis", "step", "wavy"}}

FlowchartArgs ==
  {[kind |-> "undefined", obj |-> <<>>], [kind |-> "string", obj |-> <<>>]}
    \cup {[kind |-> "object", obj |-> o] :
            o \in {<<>>, <<<<"curve", "linear">>>>, <<<<"nodeSpacing", "50">>>>,
                   <<<<"rankSpacing", "">>>>, <<<<"colour", "red">>>>,
                   <<<<"htmlLabels", "true">>, <<"colour", "red">>>>}}

NextDirective ==
  \/ \E v \in CurveArgs : DoCurve(v)
  \/ \E v \in FlowchartArgs : DoFlowchart(v)
  \/ DoDirectiveRender

SpecDirective == InitDirective /\ [][NextDirective]_vars

\* C29: a curve(v) call with v outside the curve enumeration, or a
\* flowchart(o) call with an unrecognized option key, fails and leaves the
\* directive as it was: render() returns the same text after the failed
\* call as before it.
C29_FailedCallKeepsText ==
  /\ [](Len(renders) >= 2 => renders[1] = renders[2])
  /\ [][(\/ (last'.op = "curve" /\ last'.args[1].name \notin Curve
               /\ last'.args[1].kind # "undefined")
         \/ (last'.op = "flowchart" /\ last'.args[1].kind = "object"
               /\ \E i \in 1..Len(last'.args[1].obj) :
                    last'.args[1].obj[i][1] \notin FlowProps))
          => last'.threw # ""]_vars

====
